---- MODULE Spec2Model ----
(***************************************************************************)
(* Model of dataform-sqlx-linter: the hard-coded-FQN check                 *)
(* (checks/hardcoded_fqns.py with utils/io.py and utils/printing.py) and   *)
(* the check runner (runner.py).                                           *)
(*                                                                         *)
(* Representation.                                                         *)
(*  - A Python str is a sequence of tokens.  A token is a run of            *)
(*    characters; every character the code inspects on its own (the        *)
(*    backtick, the dot, the comma, the blank) is a token of its own.      *)
(*    "ds.b" is <<"ds", ".", "b">>, "" is <<>>.                             *)
(*  - A JSON value is a tagged record: None (null or an absent key),       *)
(*    Str(s), List(seq), Bool(b), or a record tagged "obj" for a dict.    *)
(*  - A Python dict is a function, a Python set is a set, a list is a      *)
(*    sequence.                                                            *)
(***************************************************************************)
EXTENDS Integers, Sequences, FiniteSets, TLC

VARIABLES
    graph_file,   \* compiled_graph.json as found on disk when run() starts
    files,        \* run(files): the input file list
    pc,           \* position inside run()
    loads,        \* number of calls of load_compiled_graph made by the run
    index,        \* (by_name, name_to_fqn, source_fqns, by_file)
    to_check,     \* set of action names scoped to the input files
    todo,         \* the part of sorted(to_check) not yet iterated
    evaluated,    \* the actions audited so far, in order, each with the
                  \* parsed_tables and suspects the loop computed for it
    has_errors,   \* run()'s has_errors flag
    out,          \* the lines printed so far (stdout and stderr), in order
    rc,           \* run()'s return value; NoRc before it returns
    r_in,         \* cli(): argv, environment, config file, check results
    r_pc,         \* position inside cli()
    r_include,    \* cli(): the list `include`
    r_exclude,    \* cli(): the list `exclude`
    r_selected,   \* cli(): the set `selected`
    r_todo,       \* cli(): the part of sorted(selected) not yet iterated
    r_calls,      \* cli(): the checks invoked so far, in order
    r_any_fail,   \* cli(): any_fail
    r_out,        \* cli(): the notices printed so far
    r_rc,         \* cli()'s return value; NoRc before it returns
    c_graph_file, \* columns check: compiled_graph.json as found on disk
    c_files,      \* columns check: the input file list
    c_pc,         \* columns check: position inside run()
    c_todo,       \* columns check: the tables iter_tables_for_files has yet
                  \* to yield
    c_has_errors, \* columns check: has_errors
    c_out,        \* columns check: the lines printed so far, in order
    c_rc,         \* columns check: return value; NoRc before it returns
    s_disk,       \* schema check: for each file name, what is on disk
    s_files,      \* schema check: the input file list
    s_pc,         \* schema check: position inside run()
    s_todo,       \* schema check: the part of `files` not yet iterated
    s_has_errors, \* schema check: has_errors
    s_out,        \* schema check: the lines printed so far, in order
    s_rc,         \* schema check: return value; NoRc before it returns
    w_tree,       \* extractor: the expression tree being walked
    w_todo,       \* extractor: the Table nodes find_all has yet to yield
    w_marks,      \* extractor: for each Table node visited, whether
                  \* _is_write_target took it for a write target
    x_tree,       \* _extract_read_tables: the tree parse_one returned
    x_pc,         \* _extract_read_tables: position inside the function
    x_cte_names,  \* _extract_read_tables: cte_names
    x_todo,       \* _extract_read_tables: the Table nodes find_all has yet
                  \* to yield
    x_marks,      \* _extract_read_tables: for each Table node visited, the
                  \* branch of the loop body that it took
    x_results     \* _extract_read_tables: results

fqn_vars == <<graph_file, files, pc, loads, index, to_check, todo, evaluated,
              has_errors, out, rc>>
run_vars == <<r_in, r_pc, r_include, r_exclude, r_selected, r_todo, r_calls,
              r_any_fail, r_out, r_rc>>
col_vars == <<c_graph_file, c_files, c_pc, c_todo, c_has_errors, c_out, c_rc>>
sch_vars == <<s_disk, s_files, s_pc, s_todo, s_has_errors, s_out, s_rc>>
wt_vars == <<w_tree, w_todo, w_marks>>
ext_vars == <<x_tree, x_pc, x_cte_names, x_todo, x_marks, x_results>>
vars == <<fqn_vars, run_vars, col_vars, sch_vars, wt_vars, ext_vars>>

\* the variables that the actions of one part of the program leave alone
not_fqn_vars == <<run_vars, col_vars, sch_vars, wt_vars, ext_vars>>
not_run_vars == <<fqn_vars, col_vars, sch_vars, wt_vars, ext_vars>>
not_col_vars == <<fqn_vars, run_vars, sch_vars, wt_vars, ext_vars>>
not_sch_vars == <<fqn_vars, run_vars, col_vars, wt_vars, ext_vars>>
not_wt_vars == <<fqn_vars, run_vars, col_vars, sch_vars, ext_vars>>
not_ext_vars == <<fqn_vars, run_vars, col_vars, sch_vars, wt_vars>>

(***************************************************************************)
(* Bounds of the model.                                                    *)
(***************************************************************************)
MaxActions == 2     \* action records in the compiled graph
MaxFiles == 2       \* entries of the input file list
MaxNodes == 4       \* nodes of an expression tree walked node by node

\* rc before run() or cli() has returned
NoRc == 0 - 1

(***************************************************************************)
(* JSON values and Python strings.                                         *)
(***************************************************************************)
None == [t |-> "null"]
Str(s) == [t |-> "str", v |-> s]
List(s) == [t |-> "list", v |-> s]
Bool(b) == [t |-> "bool", v |-> b]

\* bool(x) of a JSON value
Truthy(x) ==
    CASE x.t = "null" -> FALSE
      [] x.t = "str" -> x.v # <<>>
      [] x.t = "list" -> x.v # <<>>
      [] x.t = "bool" -> x.v
      [] OTHER -> DOMAIN x # {"t"}

\* Python's `x or y`
Or(x, y) == IF Truthy(x) THEN x ELSE y

\* isinstance(x, str)
IsStr(x) == x.t = "str"

RECURSIVE LStrip(_, _)
LStrip(s, chars) ==
    IF s # <<>> /\ Head(s) \in chars THEN LStrip(Tail(s), chars) ELSE s

RECURSIVE RStrip(_, _)
RStrip(s, chars) ==
    IF s # <<>> /\ s[Len(s)] \in chars
    THEN RStrip(SubSeq(s, 1, Len(s) - 1), chars) ELSE s

\* s.strip(chars)
Strip(s, chars) == RStrip(LStrip(s, chars), chars)

Whitespace == {" "}
\* the backtick character, written as a word because the lexer rejects it
Backtick == {"BACKTICK"}

\* str(x or ""), x a JSON value that is null or a string
StrOrEmpty(x) == IF Truthy(x) THEN x.v ELSE <<>>

(***************************************************************************)
(* Order of strings.  TokenOrder lists the tokens that occur in sorted     *)
(* strings in Python's (code point) order; no listed token is a prefix of  *)
(* another, and "." sorts below every character of a word, so comparing    *)
(* token by token is comparing character by character.                     *)
(***************************************************************************)
TokenOrder == <<".", "COLUMNS", "INFORMATION_SCHEMA", "a", "b", "c",
                "columns", "description", "ds", "ext_ds", "ext_table",
                "hardcoded_fqns", "proj", "schema", "src", "x", "y">>

TokenRank(tok) == CHOOSE i \in 1..Len(TokenOrder) : TokenOrder[i] = tok

RECURSIVE StrLess(_, _)
StrLess(s, u) ==
    IF u = <<>> THEN FALSE
    ELSE IF s = <<>> THEN TRUE
    ELSE IF Head(s) = Head(u) THEN StrLess(Tail(s), Tail(u))
    ELSE TokenRank(Head(s)) < TokenRank(Head(u))

\* sorted(S) for a set of strings
RECURSIVE Sorted(_)
Sorted(S) ==
    IF S = {} THEN <<>>
    ELSE LET m == CHOOSE x \in S : \A y \in S \ {x} : StrLess(x, y)
         IN <<m>> \o Sorted(S \ {m})

Range(s) == {s[i] : i \in DOMAIN s}

(***************************************************************************)
(* SQL texts and their parse trees.                                        *)
(*                                                                         *)
(* sqlglot.parse_one(sql, read="bigquery") is the parser the extractor     *)
(* calls.  SqlParse gives, for each SQL text of the model, what the parser *)
(* answers: a raised exception, or the expression tree.  A tree is a       *)
(* sequence of nodes; node i has a kind, its parent (0 at the root), the   *)
(* node in its `this` slot (0 if none or if not a node of the tree), and,  *)
(* by kind, the parts of a Table or the alias of a CTE.  Identifier,       *)
(* literal and column nodes are left out: they are neither Table nor CTE   *)
(* nodes nor ancestors of one.                                             *)
(***************************************************************************)
Node(kind, parent, this) ==
    [kind |-> kind, parent |-> parent, this |-> this,
     catalog |-> <<>>, db |-> <<>>, name |-> <<>>, alias |-> <<>>]

\* exp.Table with catalog, db and name (each "" when absent)
Table(parent, catalog, db, name) ==
    [kind |-> "Table", parent |-> parent, this |-> 0,
     catalog |-> catalog, db |-> db, name |-> name, alias |-> <<>>]

\* exp.CTE `alias AS (this)`
CTE(parent, this, alias) ==
    [kind |-> "CTE", parent |-> parent, this |-> this,
     catalog |-> <<>>, db |-> <<>>, name |-> <<>>, alias |-> alias]

Raises == [raised |-> TRUE, tree |-> <<>>]
Parsed(tree) == [raised |-> FALSE, tree |-> tree]

SqlSelect1 == <<"select 1">>
SqlFromDsB == <<"select * from ds.b">>
SqlFromExt == <<"select * from ext_ds.ext_table">>
SqlInfoSchema == <<"select * from ds.INFORMATION_SCHEMA.COLUMNS">>
SqlCtas == <<"create table ds.x as select * from ds.y">>
SqlCte == <<"with b as (select * from ext_ds.ext_table) select * from b join ds.b using (id)">>
SqlInsert == <<"insert into ds.x select * from ds.y">>
SqlJoin == <<"select * from ds.y join ext_ds.ext_table using (id)">>
SqlUnparsable == <<"select * from (">>
SqlBlank == <<" ", " ">>

SqlTexts == {SqlSelect1, SqlFromDsB, SqlFromExt, SqlInfoSchema, SqlCtas,
             SqlCte, SqlInsert, SqlJoin, SqlUnparsable}

SqlParse(sql) ==
    CASE sql = SqlSelect1 ->
           Parsed(<< Node("Select", 0, 0) >>)
      [] sql = SqlFromDsB ->
           Parsed(<< Node("Select", 0, 0),
                     Node("From", 1, 3),
                     Table(2, <<>>, <<"ds">>, <<"b">>) >>)
      [] sql = SqlFromExt ->
           Parsed(<< Node("Select", 0, 0),
                     Node("From", 1, 3),
                     Table(2, <<>>, <<"ext_ds">>, <<"ext_table">>) >>)
      [] sql = SqlInfoSchema ->
           Parsed(<< Node("Select", 0, 0),
                     Node("From", 1, 3),
                     Table(2, <<"ds">>, <<"INFORMATION_SCHEMA">>, <<"COLUMNS">>) >>)
      [] sql = SqlCtas ->
           Parsed(<< Node("Create", 0, 2),
                     Table(1, <<>>, <<"ds">>, <<"x">>),
                     Node("Select", 1, 0),
                     Node("From", 3, 5),
                     Table(4, <<>>, <<"ds">>, <<"y">>) >>)
      [] sql = SqlCte ->
           Parsed(<< Node("Select", 0, 0),
                     Node("With", 1, 0),
                     CTE(2, 4, <<"b">>),
                     Node("Select", 3, 0),
                     Node("From", 4, 6),
                     Table(5, <<>>, <<"ext_ds">>, <<"ext_table">>),
                     Node("From", 1, 8),
                     Table(7, <<>>, <<>>, <<"b">>),
                     Node("Join", 1, 10),
                     Table(9, <<>>, <<"ds">>, <<"b">>) >>)
      [] sql = SqlInsert ->
           Parsed(<< Node("Insert", 0, 2),
                     Table(1, <<>>, <<"ds">>, <<"x">>),
                     Node("Select", 1, 0),
                     Node("From", 3, 5),
                     Table(4, <<>>, <<"ds">>, <<"y">>) >>)
      [] sql = SqlJoin ->
           Parsed(<< Node("Select", 0, 0),
                     Node("From", 1, 3),
                     Table(2, <<>>, <<"ds">>, <<"y">>),
                     Node("Join", 1, 5),
                     Table(4, <<>>, <<"ext_ds">>, <<"ext_table">>) >>)
      [] OTHER -> Raises

\* tree.find_all(kind): the nodes of that kind
FindAll(tree, kind) == {i \in DOMAIN tree : tree[i].kind = kind}

\* node.find_ancestor(kind): the nearest proper ancestor of that kind, 0 if none
RECURSIVE FindAncestor(_, _, _)
FindAncestor(tree, i, kind) ==
    LET p == tree[i].parent
    IN IF p = 0 THEN 0
       ELSE IF tree[p].kind = kind THEN p
       ELSE FindAncestor(tree, p, kind)

\* f"{proj}.{ds}.{tbl}" if proj else f"{ds}.{tbl}"
Dotted(proj, ds, tbl) ==
    IF proj # <<>> THEN proj \o <<".">> \o ds \o <<".">> \o tbl
    ELSE ds \o <<".">> \o tbl

_normalize_bq_table(tree, i) ==
    LET proj == Strip(tree[i].catalog, Backtick)
        ds == Strip(tree[i].db, Backtick)
        nm == Strip(tree[i].name, Backtick)
    IN IF ds = <<>> \/ nm = <<>> THEN <<>> ELSE Dotted(proj, ds, nm)

\* a variant of _collect_cte_names that collects the aliases of the outermost
\* WITH only, none from inside a CTE body or a sub-query
CollectOutermostCteNames(tree) ==
    {tree[i].alias :
        i \in {j \in FindAll(tree, "CTE") :
                  /\ tree[j].alias # <<>>
                  /\ FindAncestor(tree, j, "CTE") = 0
                  /\ FindAncestor(tree, j, "Subquery") = 0}}

_collect_cte_names(tree) ==
    {tree[i].alias : i \in {j \in FindAll(tree, "CTE") : tree[j].alias # <<>>}}

\* a variant of _is_write_target that takes every table under a CREATE,
\* INSERT or COPY statement for its target
IsUnderWriteStatement(tree, i) ==
    \/ FindAncestor(tree, i, "Create") # 0
    \/ FindAncestor(tree, i, "Insert") # 0
    \/ FindAncestor(tree, i, "Copy") # 0

_is_write_target(tree, i) ==
    LET create == FindAncestor(tree, i, "Create")
        insert == FindAncestor(tree, i, "Insert")
        copy == FindAncestor(tree, i, "Copy")
    IN IF create # 0 THEN tree[create].this = i
       ELSE IF insert # 0 THEN tree[insert].this = i
       ELSE IF copy # 0 THEN tree[copy].this = i
       ELSE FALSE

\* a variant of ReadTablesOfTree that takes only an unqualified table for
\* a reference to a CTE
ReadTablesCteUnqualifiedOnly(tree) ==
    LET cte_names == _collect_cte_names(tree)
        kept == {i \in FindAll(tree, "Table") :
                    /\ ~(tree[i].name \in cte_names /\ tree[i].db = <<>>)
                    /\ ~_is_write_target(tree, i)
                    /\ _normalize_bq_table(tree, i) # <<>>}
    IN {_normalize_bq_table(tree, i) : i \in kept}

\* a variant of ReadTablesOfTree with the INFORMATION_SCHEMA filter that the
\* docstring of _extract_read_tables lists
ReadTablesSkippingInfoSchema(tree) ==
    LET cte_names == _collect_cte_names(tree)
        kept == {i \in FindAll(tree, "Table") :
                    /\ tree[i].name \notin cte_names
                    /\ ~_is_write_target(tree, i)
                    /\ "INFORMATION_SCHEMA" \notin Range(tree[i].db)
                    /\ _normalize_bq_table(tree, i) # <<>>}
    IN {_normalize_bq_table(tree, i) : i \in kept}

\* the loop of _extract_read_tables over a parsed tree
ReadTablesOfTree(tree) ==
    LET cte_names == _collect_cte_names(tree)
        kept == {i \in FindAll(tree, "Table") :
                    /\ tree[i].name \notin cte_names
                    /\ ~_is_write_target(tree, i)
                    /\ _normalize_bq_table(tree, i) # <<>>}
    IN {_normalize_bq_table(tree, i) : i \in kept}

\* a variant of _extract_read_tables that answers a parse failure with the
\* text itself as a reference
ExtractFlaggingUnparsed(sql) ==
    IF sql = <<>> \/ Strip(sql, Whitespace) = <<>> THEN {}
    ELSE LET res == SqlParse(sql)
         IN IF res.raised THEN {sql} ELSE ReadTablesOfTree(res.tree)

\* sql is a Python str
_extract_read_tables(sql) ==
    IF sql = <<>> \/ Strip(sql, Whitespace) = <<>> THEN {}
    ELSE LET res == SqlParse(sql)
         IN IF res.raised THEN {} ELSE ReadTablesOfTree(res.tree)

(***************************************************************************)
(* The compiled graph: utils/io.py and the index of hardcoded_fqns.py.     *)
(***************************************************************************)
EmptyDict == [t |-> "obj"]

\* a target object {"database": .., "schema": .., "name": ..}
Target(database, schema, name) ==
    [t |-> "obj", database |-> database, schema |-> schema, name |-> name]

\* an action record of the graph; a key that is absent holds None
Action(name, id, fileName, target, canonicalTarget, query, compiledQuery, sqlxCompiled, dependencies) ==
    [t |-> "obj", name |-> name, id |-> id, fileName |-> fileName,
     target |-> target, canonicalTarget |-> canonicalTarget,
     query |-> query, compiledQuery |-> compiledQuery,
     sqlxCompiled |-> sqlxCompiled, dependencies |-> dependencies]

Source(target) == [t |-> "obj", target |-> target]

Graph(actions, tables, sources) ==
    [t |-> "obj", actions |-> actions, tables |-> tables, sources |-> sources]

\* What load_compiled_graph finds at DEFAULT_GRAPH_PATH.
\*   missing      read_text raises FileNotFoundError
\*   unreadable   read_text raises another OSError
\*   undecodable  the bytes are not UTF-8: read_text raises UnicodeDecodeError
\*   badjson      json.loads raises JSONDecodeError
\*   notobject    the top-level JSON value is not an object
\*   ok           the file holds the object `graph`
FileStates == {"missing", "unreadable", "undecodable", "badjson", "notobject", "ok"}

\* load_compiled_graph(): the exception it ends with ("" when it returns)
\* and the graph it returns
load_compiled_graph(gf) ==
    CASE gf.state = "missing" ->
           [exc |-> "GraphLoadError", msg |-> "Could not find", graph |-> None]
      [] gf.state = "unreadable" ->
           [exc |-> "GraphLoadError", msg |-> "Failed reading", graph |-> None]
      [] gf.state = "undecodable" ->
           [exc |-> "UnicodeDecodeError", msg |-> "", graph |-> None]
      [] gf.state = "badjson" ->
           [exc |-> "GraphLoadError", msg |-> "Failed to parse", graph |-> None]
      [] gf.state = "notobject" ->
           [exc |-> "GraphLoadError", msg |-> "Unexpected structure", graph |-> None]
      [] OTHER ->
           [exc |-> "", msg |-> "", graph |-> gf.graph]

\* target.get(..) raises AttributeError when target is truthy and no dict
TargetRaises(target) == Truthy(target) /\ target.t # "obj"

\* a variant of _target_to_fqn that is content with a table name
TargetToFqnWithoutSchema(target) ==
    IF ~Truthy(target) THEN <<>>
    ELSE LET proj == Strip(StrOrEmpty(target.database), Backtick)
             ds == Strip(StrOrEmpty(target.schema), Backtick)
             tbl == Strip(StrOrEmpty(target.name), Backtick)
         IN IF tbl = <<>> THEN <<>> ELSE Dotted(proj, ds, tbl)

\* target is a dict, or {} / None
_target_to_fqn(target) ==
    IF ~Truthy(target) THEN <<>>
    ELSE LET proj == Strip(StrOrEmpty(target.database), Backtick)
             ds == Strip(StrOrEmpty(target.schema), Backtick)
             tbl == Strip(StrOrEmpty(target.name), Backtick)
         IN IF ~(ds # <<>> /\ tbl # <<>>) THEN <<>> ELSE Dotted(proj, ds, tbl)

EmptyMap == [k \in {} |-> None]

\* d[k] = v
Put(d, k, v) == [x \in DOMAIN d \cup {k} |-> IF x = k THEN v ELSE d[x]]

\* d.setdefault(k, []).append(v)
AppendTo(d, k, v) ==
    Put(d, k, (IF k \in DOMAIN d THEN d[k] ELSE <<>>) \o <<v>>)

\* a.get("target") or a.get("canonicalTarget") or {}
TargetOf(a) == Or(Or(a.target, a.canonicalTarget), EmptyDict)

\* one iteration of the loop over actions in _index_actions
IndexOne(acc, a) ==
    LET name == Or(a.name, a.id)
    IN IF ~IsStr(name) THEN acc
       ELSE LET fqn == _target_to_fqn(TargetOf(a))
                fn == a.fileName
            IN [by_name |-> Put(acc.by_name, name.v, a),
                name_to_fqn |-> IF fqn # <<>>
                                THEN Put(acc.name_to_fqn, name.v, fqn)
                                ELSE acc.name_to_fqn,
                by_file |-> IF IsStr(fn)
                            THEN AppendTo(acc.by_file, fn.v, name.v)
                            ELSE acc.by_file]

RECURSIVE IndexLoop(_, _)
IndexLoop(acc, actions) ==
    IF actions = <<>> THEN acc
    ELSE IndexLoop(IndexOne(acc, Head(actions)), Tail(actions))

\* _index_actions(graph) raises: _target_to_fqn is called with something
\* that is no dict, for a record that has a name or for a source
IndexRaises(graph) ==
    LET actions == Or(Or(graph.actions, graph.tables), List(<<>>)).v
        sources == IF graph.sources = None THEN <<>> ELSE graph.sources.v
    IN \/ \E i \in DOMAIN actions :
             /\ IsStr(Or(actions[i].name, actions[i].id))
             /\ TargetRaises(TargetOf(actions[i]))
       \/ \E i \in DOMAIN sources :
             TargetRaises(Or(sources[i].target, EmptyDict))

_index_actions(graph) ==
    LET actions == Or(Or(graph.actions, graph.tables), List(<<>>)).v
        sources == IF graph.sources = None THEN <<>> ELSE graph.sources.v
        acc == IndexLoop([by_name |-> EmptyMap, name_to_fqn |-> EmptyMap,
                          by_file |-> EmptyMap], actions)
        src_fqns == {_target_to_fqn(Or(sources[i].target, EmptyDict)) :
                        i \in DOMAIN sources}
    IN [by_name |-> acc.by_name, name_to_fqn |-> acc.name_to_fqn,
        source_fqns |-> src_fqns \ {<<>>}, by_file |-> acc.by_file]

_action_query(a) ==
    Or(Or(Or(a.query, a.compiledQuery), a.sqlxCompiled), Str(<<>>)).v

_action_dependencies(a) ==
    LET deps == a.dependencies
    IN IF deps.t = "list" /\ \A i \in DOMAIN deps.v : IsStr(deps.v[i])
       THEN [i \in DOMAIN deps.v |-> deps.v[i].v]
       ELSE <<>>

\* a variant of Accounted that leaves the declared sources out
AccountedDepsOnly(idx, a) ==
    LET deps == Range(_action_dependencies(a))
    IN {idx.name_to_fqn[d] : d \in deps \cap DOMAIN idx.name_to_fqn}

\* accounted = set(dep_fqns) | source_fqns for one action
Accounted(idx, a) ==
    LET deps == Range(_action_dependencies(a))
        dep_fqns == {idx.name_to_fqn[d] : d \in deps \cap DOMAIN idx.name_to_fqn}
    IN dep_fqns \cup idx.source_fqns

\* suspects = {t for t in parsed_tables if t not in accounted}
Suspects(parsed_tables, accounted) ==
    {tb \in parsed_tables : tb \notin accounted}

\* a variant of ToCheck that looks at the first input file only
ToCheckFirstFileOnly(by_file, fs) ==
    IF fs # <<>> /\ Head(fs) \in DOMAIN by_file THEN Range(by_file[Head(fs)]) ELSE {}

\* the loop of run() that builds to_check from the input files
RECURSIVE ToCheck(_, _)
ToCheck(by_file, fs) ==
    IF fs = <<>> THEN {}
    ELSE (IF Head(fs) \in DOMAIN by_file THEN Range(by_file[Head(fs)]) ELSE {})
         \cup ToCheck(by_file, Tail(fs))

(***************************************************************************)
(* run(files) of checks/hardcoded_fqns.py, one action per step.            *)
(*   pc: "start" -> "index" -> "scope" -> "loop" -> "footer" -> "done";    *)
(*   "raised" when an exception leaves run().                              *)
(* A printed line records the Printer method called (utils/printing.py:    *)
(* error and footer_fail write to stderr, success and footer_ok to         *)
(* stdout), the message, and for a finding the file and the suspects.      *)
(***************************************************************************)
Line(fn, msg, display, suspects) ==
    [fn |-> fn, msg |-> msg, display |-> display, suspects |-> suspects]

MsgNothing == "No actions found for provided files; nothing to check."
MsgFinding == "suspected hard-coded table references (use ref())"
MsgFail == "Some SQLX files use fully-qualified tables instead of ref()."
MsgOk == "No likely hard-coded FQNs found."

NoIndex == [by_name |-> EmptyMap, name_to_fqn |-> EmptyMap,
            source_fqns |-> {}, by_file |-> EmptyMap]

\* try: graph = load_compiled_graph() except GraphLoadError: error, return 1
Load ==
    /\ pc = "start"
    /\ LET res == load_compiled_graph(graph_file)
       IN /\ loads' = loads + 1
          /\ IF res.exc = "GraphLoadError"
             THEN /\ out' = Append(out, Line("error", res.msg, <<>>, <<>>))
                  /\ rc' = 1
                  /\ pc' = "done"
             ELSE IF res.exc # ""
             THEN /\ pc' = "raised"
                  /\ UNCHANGED <<out, rc>>
             ELSE /\ pc' = "index"
                  /\ UNCHANGED <<out, rc>>
    /\ UNCHANGED <<graph_file, files, index, to_check, todo, evaluated,
                   has_errors, not_fqn_vars>>

\* by_name, name_to_fqn, source_fqns, by_file = _index_actions(graph)
Index ==
    /\ pc = "index"
    /\ IF IndexRaises(graph_file.graph)
       THEN /\ pc' = "raised"
            /\ UNCHANGED index
       ELSE /\ index' = _index_actions(graph_file.graph)
            /\ pc' = "scope"
    /\ UNCHANGED <<graph_file, files, loads, to_check, todo, evaluated,
                   has_errors, out, rc, not_fqn_vars>>

\* a variant of Scope that evaluates the names in the order of the input
\* files, file by file, instead of sorted(to_check)
ScopeInFileOrder ==
    /\ pc = "scope"
    /\ LET tc == ToCheck(index.by_file, files)
           listed(f) == IF f \in DOMAIN index.by_file THEN index.by_file[f] ELSE <<>>
           RECURSIVE InOrder(_)
           InOrder(fs) == IF fs = <<>> THEN <<>>
                          ELSE listed(Head(fs)) \o InOrder(Tail(fs))
       IN /\ to_check' = tc
          /\ IF tc = {}
             THEN /\ out' = Append(out, Line("success", MsgNothing, <<>>, <<>>))
                  /\ rc' = 0
                  /\ pc' = "done"
                  /\ todo' = <<>>
             ELSE /\ todo' = InOrder(files)
                  /\ pc' = "loop"
                  /\ UNCHANGED <<out, rc>>
    /\ UNCHANGED <<graph_file, files, loads, index, evaluated, has_errors,
                   not_fqn_vars>>

\* a variant of Scope without the early return: an empty to_check ends
\* with the pass summary of the footer
ScopeWithoutEarlyReturn ==
    /\ pc = "scope"
    /\ LET tc == ToCheck(index.by_file, files)
       IN /\ to_check' = tc
          /\ IF tc = {}
             THEN /\ out' = Append(out, Line("footer_ok", MsgOk, <<>>, <<>>))
                  /\ rc' = 0
                  /\ pc' = "done"
                  /\ todo' = <<>>
             ELSE /\ todo' = Sorted(tc)
                  /\ pc' = "loop"
                  /\ UNCHANGED <<out, rc>>
    /\ UNCHANGED <<graph_file, files, loads, index, evaluated, has_errors,
                   not_fqn_vars>>

\* build to_check; return 0 with the "nothing to check" line when it is empty
Scope ==
    /\ pc = "scope"
    /\ LET tc == ToCheck(index.by_file, files)
       IN /\ to_check' = tc
          /\ IF tc = {}
             THEN /\ out' = Append(out, Line("success", MsgNothing, <<>>, <<>>))
                  /\ rc' = 0
                  /\ pc' = "done"
                  /\ todo' = <<>>
             ELSE /\ todo' = Sorted(tc)
                  /\ pc' = "loop"
                  /\ UNCHANGED <<out, rc>>
    /\ UNCHANGED <<graph_file, files, loads, index, evaluated, has_errors,
                   not_fqn_vars>>

\* one iteration of `for action_name in sorted(to_check)`
Evaluate ==
    /\ pc = "loop"
    /\ todo # <<>>
    /\ LET action_name == Head(todo)
           a == IF action_name \in DOMAIN index.by_name
                THEN index.by_name[action_name]
                ELSE Action(None, None, None, None, None, None, None, None, None)
           file_name == Or(a.fileName, Str(action_name)).v
           parsed_tables == _extract_read_tables(_action_query(a))
           suspects == Suspects(parsed_tables, Accounted(index, a))
       IN /\ evaluated' = Append(evaluated,
                                 [name |-> action_name, action |-> a,
                                  parsed_tables |-> parsed_tables,
                                  suspects |-> suspects])
          /\ IF suspects # {}
             THEN /\ has_errors' = TRUE
                  /\ out' = Append(out, Line("error", MsgFinding, file_name,
                                            Sorted(suspects)))
             ELSE UNCHANGED <<has_errors, out>>
    /\ todo' = Tail(todo)
    /\ pc' = IF Tail(todo) = <<>> THEN "footer" ELSE "loop"
    /\ UNCHANGED <<graph_file, files, loads, index, to_check, rc, not_fqn_vars>>

\* the footer and the return after the loop
Footer ==
    /\ pc = "footer"
    /\ IF has_errors
       THEN /\ out' = Append(out, Line("footer_fail", MsgFail, <<>>, <<>>))
            /\ rc' = 1
       ELSE /\ out' = Append(out, Line("footer_ok", MsgOk, <<>>, <<>>))
            /\ rc' = 0
    /\ pc' = "done"
    /\ UNCHANGED <<graph_file, files, loads, index, to_check, todo, evaluated,
                   has_errors, not_fqn_vars>>

(***************************************************************************)
(* The inputs of run(): the graph file and the file list.                  *)
(***************************************************************************)
NameA == <<"a">>
NameB == <<"b">>
FileA == <<"a.sqlx">>
FileB == <<"b.sqlx">>
FileNames == {FileA, FileB}

S(tok) == Str(<<tok>>)
TargetDs(tbl) == Target(None, S("ds"), S(tbl))

\* action `a` of a.sqlx with each query of the model, without dependencies
ActionsOfA ==
    {Action(Str(NameA), None, Str(FileA), TargetDs("a"), None, Str(q), None,
            None, None) : q \in SqlTexts}

ActionPool ==
    ActionsOfA \cup
    { \* a declares b as a dependency and reads ds.b
      Action(Str(NameA), None, Str(FileA), TargetDs("a"), None, Str(SqlFromDsB),
             None, None, List(<<Str(NameB)>>)),
      \* b, the dependency, with target ds.b
      Action(Str(NameB), None, Str(FileB), TargetDs("b"), None, Str(SqlSelect1),
             None, None, List(<<>>)),
      \* a record that uses the alternative keys id, canonicalTarget, compiledQuery
      Action(None, Str(NameB), Str(FileB), None, TargetDs("b"), None,
             Str(SqlFromExt), None, None),
      \* a record without a name
      Action(None, None, Str(FileA), TargetDs("a"), None, Str(SqlFromExt), None,
             None, None),
      \* a second record named a, defined in b.sqlx, with a blank query
      Action(Str(NameA), None, Str(FileB), None, None, Str(SqlBlank), None,
             None, None) }

SourceExt == Source(Target(None, S("ext_ds"), S("ext_table")))
\* schema "ds.INFORMATION_SCHEMA", name "COLUMNS"
SourceInfo ==
    Source(Target(None, Str(<<"ds", ".", "INFORMATION_SCHEMA">>), S("COLUMNS")))
SourceNoTarget == Source(None)

SourceLists == {None, List(<<SourceExt>>), List(<<SourceInfo, SourceNoTarget>>)}

SeqsUpTo(X, n) == UNION {[1..k -> X] : k \in 0..n}

\* the graphs of the model: the records under "actions", or, for the
\* graphs of at most one record, under "tables"
Graphs ==
    {Graph(List(acts), None, srcs) :
        acts \in SeqsUpTo(ActionPool, MaxActions), srcs \in SourceLists}
    \cup
    {Graph(None, List(acts), srcs) :
        acts \in SeqsUpTo(ActionPool, 1), srcs \in SourceLists}

GraphFiles ==
    {[state |-> "ok", graph |-> g] : g \in Graphs}
    \cup {[state |-> st, graph |-> None] : st \in FileStates \ {"ok"}}

ColumnsIdle ==
    /\ c_graph_file = [state |-> "missing", graph |-> None]
    /\ c_files = <<>>
    /\ c_pc = "idle"
    /\ c_todo = <<>>
    /\ c_has_errors = FALSE
    /\ c_out = <<>>
    /\ c_rc = NoRc

SchemaIdle ==
    /\ s_disk = <<>>
    /\ s_files = <<>>
    /\ s_pc = "idle"
    /\ s_todo = <<>>
    /\ s_has_errors = FALSE
    /\ s_out = <<>>
    /\ s_rc = NoRc

WalkIdle ==
    /\ w_tree = <<>>
    /\ w_todo = <<>>
    /\ w_marks = <<>>

ExtractIdle ==
    /\ x_tree = <<>>
    /\ x_pc = "idle"
    /\ x_cte_names = {}
    /\ x_todo = <<>>
    /\ x_marks = <<>>
    /\ x_results = {}

RunnerIdle ==
    /\ r_in = None
    /\ r_pc = "idle"
    /\ r_include = <<>>
    /\ r_exclude = <<>>
    /\ r_selected = {}
    /\ r_todo = <<>>
    /\ r_calls = <<>>
    /\ r_any_fail = FALSE
    /\ r_out = <<>>
    /\ r_rc = NoRc

Init ==
    /\ graph_file \in GraphFiles
    /\ files \in SeqsUpTo(FileNames, MaxFiles)
    /\ pc = "start"
    /\ loads = 0
    /\ index = NoIndex
    /\ to_check = {}
    /\ todo = <<>>
    /\ evaluated = <<>>
    /\ has_errors = FALSE
    /\ out = <<>>
    /\ rc = NoRc
    /\ RunnerIdle
    /\ ColumnsIdle
    /\ SchemaIdle
    /\ WalkIdle
    /\ ExtractIdle

Next == Load \/ Index \/ Scope \/ Evaluate \/ Footer

Spec == Init /\ [][Next]_vars

(***************************************************************************)
(* Properties of run().                                                    *)
(***************************************************************************)
GraphLoaded == graph_file.state = "ok"

\* the action records of the graph on disk, in document order
GraphActions ==
    IF GraphLoaded
    THEN Or(Or(graph_file.graph.actions, graph_file.graph.tables), List(<<>>)).v
    ELSE <<>>

\* the records whose fileName is among the input files
ScopedRecords ==
    {i \in DOMAIN GraphActions :
        /\ IsStr(GraphActions[i].fileName)
        /\ GraphActions[i].fileName.v \in Range(files)}

HasName(a) == IsStr(Or(a.name, a.id))
RecName(a) == Or(a.name, a.id).v

\* the names under which a record of an input file is indexed
ScopedNames ==
    {RecName(GraphActions[i]) : i \in {j \in ScopedRecords : HasName(GraphActions[j])}}

\* the last record of the graph that carries the name n
LastNamed(n) ==
    LET carriers == {i \in DOMAIN GraphActions :
                        HasName(GraphActions[i]) /\ RecName(GraphActions[i]) = n}
    IN GraphActions[CHOOSE i \in carriers : \A j \in carriers : j <= i]

\* the identifiers the declared dependencies of a resolve to
DepFqns(a) ==
    {index.name_to_fqn[d] :
        d \in Range(_action_dependencies(a)) \cap DOMAIN index.name_to_fqn}

\* suspects as the claims define them: read references minus
\* (resolved dependencies union declared sources)
ClaimSuspects(a) ==
    _extract_read_tables(_action_query(a)) \ (DepFqns(a) \cup index.source_fqns)

FindingLines == {i \in DOMAIN out : out[i].msg = MsgFinding}

DsB == <<"ds", ".", "b">>
DsX == <<"ds", ".", "x">>
DsY == <<"ds", ".", "y">>
ExtTable == <<"ext_ds", ".", "ext_table">>
InfoSchemaColumns == <<"ds", ".", "INFORMATION_SCHEMA", ".", "COLUMNS">>

C3_NothingToCheck ==
    (GraphLoaded /\ ScopedRecords = {}) =>
        /\ evaluated = <<>>
        /\ pc \notin {"loop", "footer", "raised"}
        /\ \A i \in DOMAIN out : out[i].msg \notin {MsgFinding, MsgOk, MsgFail}
        /\ pc = "done" => /\ rc = 0
                          /\ out = <<Line("success", MsgNothing, <<>>, <<>>)>>

C3_Witness ==
    /\ pc = "done"
    /\ GraphLoaded
    /\ ScopedRecords = {}
    /\ GraphActions # <<>>
    /\ files # <<>>

\* the text is not blank and the parser raises on it
ParseFails(sql) ==
    /\ sql # <<>>
    /\ Strip(sql, Whitespace) # <<>>
    /\ SqlParse(sql).raised

\* C4: an audited action whose query fails to parse has the empty read set
\* and no finding; the run is not aborted in the loop, and when it returns
\* every scoped name has been audited, in sorted order.
C4_ParseFailureIsSilent ==
    /\ \A k \in DOMAIN evaluated :
          ParseFails(_action_query(evaluated[k].action)) =>
              /\ evaluated[k].parsed_tables = {}
              /\ evaluated[k].suspects = {}
    /\ Cardinality(FindingLines) =
          Cardinality({k \in DOMAIN evaluated : evaluated[k].suspects # {}})
    /\ pc = "raised" => evaluated = <<>>
    /\ (pc = "done" /\ to_check # {}) =>
          [k \in DOMAIN evaluated |-> evaluated[k].name] = Sorted(to_check)

C4_Witness ==
    /\ pc = "done"
    /\ Len(evaluated) = 2
    /\ ParseFails(_action_query(evaluated[1].action))
    /\ evaluated[2].suspects # {}
    /\ rc = 1

\* C5: for an audited action whose query is the CREATE TABLE ds.x AS SELECT
\* ... FROM ds.y statement, ds.x is not in the read set and ds.y is; without
\* dependencies and sources ds.y is reported and the run returns 1.
C5_CtasTargetNotRead ==
    \A k \in DOMAIN evaluated :
        _action_query(evaluated[k].action) = SqlCtas =>
            /\ DsX \notin evaluated[k].parsed_tables
            /\ DsY \in evaluated[k].parsed_tables
            /\ DsX \notin evaluated[k].suspects
            /\ (Range(_action_dependencies(evaluated[k].action)) = {}
                  /\ index.source_fqns = {}) =>
                   /\ DsY \in evaluated[k].suspects
                   /\ has_errors
                   /\ \E i \in FindingLines :
                         DsY \in Range(out[i].suspects) /\ DsX \notin Range(out[i].suspects)
                   /\ pc = "done" => rc = 1

C5_Witness ==
    /\ pc = "done"
    /\ rc = 1
    /\ index.source_fqns = {}
    /\ \E k \in DOMAIN evaluated :
          /\ _action_query(evaluated[k].action) = SqlCtas
          /\ evaluated[k].suspects = {DsY}

\* the parse tree of an audited query, <<>> when there is none
TreeOf(sql) ==
    IF sql = <<>> \/ Strip(sql, Whitespace) = <<>> \/ SqlParse(sql).raised
    THEN <<>>
    ELSE SqlParse(sql).tree

\* the aliases that the WITH constructs of a tree introduce
CteAliases(tree) == {tree[j].alias : j \in FindAll(tree, "CTE")} \ {<<>>}

InsideCte(tree, i) == FindAncestor(tree, i, "CTE") # 0

SameTable(x, y) == x.catalog = y.catalog /\ x.db = y.db /\ x.name = y.name

\* table node i lies inside a WITH alias AS (...) construct and the table
\* it names is referenced nowhere outside such a construct
OnlyInsideWith(tree, i) ==
    /\ InsideCte(tree, i)
    /\ \A j \in FindAll(tree, "Table") :
          SameTable(tree[i], tree[j]) => InsideCte(tree, j)

UnderWriteStatement(tree, i) ==
    \E kind \in {"Create", "Insert", "Copy"} : FindAncestor(tree, i, kind) # 0

\* C6 as stated: a table referenced only inside a WITH alias AS (...)
\* construct of an audited query is never in the read set.
C6_Original ==
    \A k \in DOMAIN evaluated :
        LET tree == TreeOf(_action_query(evaluated[k].action))
        IN \A i \in FindAll(tree, "Table") :
              OnlyInsideWith(tree, i) =>
                  _normalize_bq_table(tree, i) \notin evaluated[k].parsed_tables

\* C6 amended: a table reference whose bare name is the alias of a CTE of
\* the statement is never in the read set, whether it is the unqualified
\* reference to the CTE or a qualified reference to a real table of that
\* name; a qualified table read inside the WITH body under a name that is
\* no CTE alias is in the read set.
C6_CteAliasNeverRead ==
    \A k \in DOMAIN evaluated :
        LET tree == TreeOf(_action_query(evaluated[k].action))
        IN \A i \in FindAll(tree, "Table") :
              /\ (tree[i].name \in CteAliases(tree) /\ tree[i].db # <<>>) =>
                    Dotted(tree[i].catalog, tree[i].db, tree[i].name)
                       \notin evaluated[k].parsed_tables
              /\ (/\ InsideCte(tree, i)
                  /\ tree[i].name \notin CteAliases(tree)
                  /\ tree[i].db # <<>> /\ tree[i].name # <<>>
                  /\ ~UnderWriteStatement(tree, i)) =>
                    Dotted(tree[i].catalog, tree[i].db, tree[i].name)
                       \in evaluated[k].parsed_tables

C6_Witness ==
    /\ pc = "done"
    /\ \E k \in DOMAIN evaluated :
          /\ _action_query(evaluated[k].action) = SqlCte
          /\ evaluated[k].parsed_tables = {ExtTable}

C8_LoadFailureReportedOnce ==
    (~GraphLoaded /\ pc # "start") =>
        /\ pc = "done"
        /\ rc = 1
        /\ Len(out) = 1
        /\ out[1].fn = "error"
        /\ evaluated = <<>>
        /\ loads = 1

(***************************************************************************)
(* cli(argv) of runner.py.                                                 *)
(*   r_pc: "start" -> "loop" -> "after" -> "done".                         *)
(* r_in holds what cli() reads: the --include, --exclude and --fail-fast   *)
(* arguments, the CHECKS_* environment variables, the config file, and     *)
(* for each check the status it returns when called with the files.       *)
(***************************************************************************)
CheckColumns == <<"columns">>
CheckDescription == <<"description">>
CheckFqns == <<"hardcoded_fqns">>
CheckSchema == <<"schema">>

\* the keys of CHECKS
CHECKS == {CheckDescription, CheckSchema, CheckColumns, CheckFqns}

\* s.split(","): the parts of s between commas
RECURSIVE SplitComma(_, _)
SplitComma(s, part) ==
    IF s = <<>> THEN <<part>>
    ELSE IF Head(s) = "," THEN <<part>> \o SplitComma(Tail(s), <<>>)
    ELSE SplitComma(Tail(s), Append(part, Head(s)))

\* s is None or a str
_split_csv(s) ==
    IF Truthy(s)
    THEN LET parts == SplitComma(s.v, <<>>)
         IN [i \in DOMAIN parts |-> Strip(parts[i], Whitespace)]
    ELSE <<>>

\* isinstance(x, list) and all(isinstance(e, str) for e in x)
IsStrList(x) == x.t = "list" /\ \A i \in DOMAIN x.v : IsStr(x.v[i])

NoConfig == [include |-> None, exclude |-> None, fail_fast |-> None]

\* _load_config(path): cfg is None without --config, else the state of the
\* file ("missing", "invalid", "ok") and the document loaded from it
_load_config(cfg) ==
    IF cfg = None THEN NoConfig
    ELSE IF cfg.state # "ok" THEN NoConfig
    ELSE IF cfg.loaded.t # "obj" THEN NoConfig
    ELSE [include |-> IF IsStrList(cfg.loaded.include)
                      THEN cfg.loaded.include ELSE None,
          exclude |-> IF IsStrList(cfg.loaded.exclude)
                      THEN cfg.loaded.exclude ELSE None,
          fail_fast |-> IF cfg.loaded.fail_fast.t = "bool"
                        THEN cfg.loaded.fail_fast ELSE None]

\* file_cfg.get(key, []) as a list of str
CfgList(x) == IF x = None THEN <<>> ELSE [i \in DOMAIN x.v |-> x.v[i].v]

\* a or b or c for lists
OrList(a, b, c) == IF a # <<>> THEN a ELSE IF b # <<>> THEN b ELSE c

Include(in) ==
    OrList(_split_csv(in.arg_include), _split_csv(in.env_include),
           CfgList(_load_config(in.config).include))

Exclude(in) ==
    OrList(_split_csv(in.arg_exclude), _split_csv(in.env_exclude),
           CfgList(_load_config(in.config).exclude))

FailFast(in) ==
    \/ in.arg_fail_fast
    \/ in.env_fail_fast = Str(<<"1">>)
    \/ Truthy(_load_config(in.config).fail_fast)

\* a variant of Selected in which an include list without any known name
\* selects every check
SelectedAllWhenNoneKnown(in) ==
    LET include == Include(in)
        exclude == Exclude(in)
        known == {c \in Range(include) : c \in CHECKS}
        sel == IF known # {} THEN known ELSE CHECKS
    IN IF exclude # <<>> THEN sel \ {c \in Range(exclude) : c \in CHECKS}
       ELSE sel

\* the set `selected` after the include and exclude lists are applied
Selected(in) ==
    LET include == Include(in)
        exclude == Exclude(in)
        sel == IF include # <<>> THEN {c \in Range(include) : c \in CHECKS}
               ELSE CHECKS
    IN IF exclude # <<>> THEN sel \ {c \in Range(exclude) : c \in CHECKS}
       ELSE sel

\* the warnings printed for the unknown names of a list, in list order
RECURSIVE Unknown(_, _)
Unknown(list, where) ==
    IF list = <<>> THEN <<>>
    ELSE (IF Head(list) \notin CHECKS
          THEN <<[msg |-> "Unknown check", where |-> where, name |-> Head(list)]>>
          ELSE <<>>) \o Unknown(Tail(list), where)

Notice(msg) == [msg |-> msg, where |-> "", name |-> <<>>]

\* lines 79-101: the configuration is read and the checks are resolved
Resolve ==
    /\ r_pc = "start"
    /\ LET sel == Selected(r_in)
           warned == r_out \o Unknown(Include(r_in), "include")
                           \o Unknown(Exclude(r_in), "exclude")
       IN /\ r_include' = Include(r_in)
          /\ r_exclude' = Exclude(r_in)
          /\ r_selected' = sel
          /\ IF sel = {}
             THEN /\ r_out' = Append(warned, Notice("No checks selected."))
                  /\ r_rc' = 0
                  /\ r_pc' = "done"
                  /\ r_todo' = <<>>
             ELSE /\ r_out' = Append(warned, Notice("Running checks"))
                  /\ r_todo' = Sorted(sel)
                  /\ r_pc' = "loop"
                  /\ UNCHANGED r_rc
    /\ UNCHANGED <<r_in, r_calls, r_any_fail, not_run_vars>>

\* a variant of AnyFail in which the status of the last check decides
AnyFailLastWins(any_fail, status) == status # 0

\* any_fail after a check has returned status
AnyFail(any_fail, status) == any_fail \/ status # 0

\* a variant of Breaks that looks at the --fail-fast flag alone
BreaksOnFlagOnly(in, status) == status # 0 /\ in.arg_fail_fast

\* whether the loop is left after a check has returned status
Breaks(in, status) == status # 0 /\ FailFast(in)

\* one iteration of `for name in sorted(selected)`
Invoke ==
    /\ r_pc = "loop"
    /\ r_todo # <<>>
    /\ LET name == Head(r_todo)
           status == r_in.results[name]
       IN /\ r_calls' = Append(r_calls, name)
          /\ r_any_fail' = AnyFail(r_any_fail, status)
          /\ r_todo' = Tail(r_todo)
          /\ IF Breaks(r_in, status)
             THEN /\ r_out' = Append(r_out, Notice("fail-fast: stopping."))
                  /\ r_pc' = "after"
             ELSE /\ r_pc' = IF Tail(r_todo) = <<>> THEN "after" ELSE "loop"
                  /\ UNCHANGED r_out
    /\ UNCHANGED <<r_in, r_include, r_exclude, r_selected, r_rc, not_run_vars>>

\* lines 112-115: the return after the loop
Finish ==
    /\ r_pc = "after"
    /\ IF r_any_fail
       THEN /\ r_rc' = 1
            /\ UNCHANGED r_out
       ELSE /\ r_rc' = 0
            /\ r_out' = Append(r_out, Notice("All selected checks passed."))
    /\ r_pc' = "done"
    /\ UNCHANGED <<r_in, r_include, r_exclude, r_selected, r_todo, r_calls,
                   r_any_fail, not_run_vars>>

(***************************************************************************)
(* The inputs of cli().                                                    *)
(***************************************************************************)
Csv2(x, y) == Str(<<x, ",", y>>)
Names(seq) == List([i \in DOMAIN seq |-> S(seq[i])])

Loaded(include, exclude, fail_fast) ==
    [t |-> "obj", include |-> include, exclude |-> exclude,
     fail_fast |-> fail_fast]

ArgIncludes ==
    {None, Str(<<>>), S("hardcoded_fqns"), Csv2("schema", "columns"),
     Csv2("schema", "notreal"), Str(<<"schema", ",", " ", "description">>)}
EnvIncludes == {None, Str(<<>>), S("description"), S("notreal")}
ArgExcludes ==
    {None, Str(<<>>), S("schema"),
     Str(<<"schema", ",", "description", ",", "columns", ",", "hardcoded_fqns">>)}
EnvExcludes == {None, Str(<<>>), Csv2("columns", "bogus")}

Configs ==
    {None,
     [state |-> "missing", loaded |-> None],
     [state |-> "ok",
      loaded |-> Loaded(Names(<<"columns">>), Names(<<>>), Bool(FALSE))],
     [state |-> "ok",
      loaded |-> Loaded(None, Names(<<"description">>), Bool(TRUE))],
     \* include is a string and fail_fast a string: both are ignored
     [state |-> "ok",
      loaded |-> Loaded(S("columns"), None, S("yes"))]}

RunnerInputs ==
    [arg_include : ArgIncludes, env_include : EnvIncludes,
     arg_exclude : ArgExcludes, env_exclude : EnvExcludes,
     arg_fail_fast : BOOLEAN, env_fail_fast : {None, S("1")},
     config : Configs, results : [CHECKS -> {0, 1}]]

FqnIdle ==
    /\ graph_file = [state |-> "missing", graph |-> None]
    /\ files = <<FileA>>
    /\ pc = "idle"
    /\ loads = 0
    /\ index = NoIndex
    /\ to_check = {}
    /\ todo = <<>>
    /\ evaluated = <<>>
    /\ has_errors = FALSE
    /\ out = <<>>
    /\ rc = NoRc

InitRunner ==
    /\ r_in \in RunnerInputs
    /\ r_pc = "start"
    /\ r_include = <<>>
    /\ r_exclude = <<>>
    /\ r_selected = {}
    /\ r_todo = <<>>
    /\ r_calls = <<>>
    /\ r_any_fail = FALSE
    /\ r_out = <<>>
    /\ r_rc = NoRc
    /\ FqnIdle
    /\ ColumnsIdle
    /\ SchemaIdle
    /\ WalkIdle
    /\ ExtractIdle

NextRunner == Resolve \/ Invoke \/ Finish

SpecRunner == InitRunner /\ [][NextRunner]_vars

(***************************************************************************)
(* Properties of cli().                                                    *)
(***************************************************************************)
Resolved == r_pc # "start"

\* C9: cli() returns 0 iff every selected check returns 0 (in particular
\* when none is selected), else 1; with an empty selection it returns 0
\* and has invoked no check.
C9_ExitStatus ==
    /\ r_pc = "done" =>
          /\ r_rc \in {0, 1}
          /\ r_rc = 0 <=> \A c \in r_selected : r_in.results[c] = 0
    /\ (Resolved /\ r_selected = {}) =>
          r_pc = "done" /\ r_rc = 0 /\ r_calls = <<>>

C9_Witness ==
    /\ r_pc = "done"
    /\ r_rc = 1
    /\ Len(r_calls) = 3
    /\ r_in.results[r_calls[1]] = 1
    /\ r_in.results[r_calls[3]] = 0

\* the check names in ascending alphabetical order
Alphabetical == <<CheckColumns, CheckDescription, CheckFqns, CheckSchema>>
Pos(c) == CHOOSE i \in DOMAIN Alphabetical : Alphabetical[i] = c

\* C10: the checks are invoked in ascending alphabetical order, each a
\* selected check and at most once, with no selected check skipped; with
\* fail-fast a failing invocation is the last one; without fail-fast the
\* run ends having invoked every selected check exactly once.
C10_InvocationOrder ==
    /\ \A i, j \in DOMAIN r_calls : i < j => Pos(r_calls[i]) < Pos(r_calls[j])
    /\ \A i \in DOMAIN r_calls :
          /\ r_calls[i] \in r_selected
          /\ \A c \in r_selected : Pos(c) < Pos(r_calls[i]) =>
                \E j \in 1..(i - 1) : r_calls[j] = c
    /\ FailFast(r_in) =>
          \A i \in DOMAIN r_calls : r_in.results[r_calls[i]] # 0 => i = Len(r_calls)
    /\ (r_pc = "done" /\ ~FailFast(r_in)) =>
          /\ Range(r_calls) = r_selected
          /\ Len(r_calls) = Cardinality(r_selected)

C10_Witness ==
    /\ r_pc = "done"
    /\ FailFast(r_in)
    /\ r_selected = CHECKS
    /\ r_calls = <<CheckColumns, CheckDescription>>
    /\ r_in.results[CheckDescription] = 1

\* the list written in the config file under key, [] without one
ConfigList(in, key) ==
    IF in.config = None THEN <<>>
    ELSE IF in.config.state # "ok" THEN <<>>
    ELSE IF in.config.loaded.t # "obj" THEN <<>>
    ELSE IF ~IsStrList(in.config.loaded[key]) THEN <<>>
    ELSE [i \in DOMAIN in.config.loaded[key].v |-> in.config.loaded[key].v[i].v]

\* the list a flag or environment variable value spells: its comma
\* separated parts, each stripped
Spelled(x) == _split_csv(x)

\* flag, else environment variable, else config file; arg_given and
\* env_given say whether the flag and the variable count as given
Precedence(arg, env, cfg, arg_given, env_given) ==
    IF arg_given THEN Spelled(arg)
    ELSE IF env_given THEN Spelled(env)
    ELSE cfg

IsGiven(x) == x # None
IsGivenNonEmpty(x) == x # None /\ x.v # <<>>

\* C11: the effective include (exclude) list is the flag's when the flag is
\* given, else the environment variable's when it is set, else the config
\* file's.
C11_FlagThenEnvThenConfig ==
    Resolved =>
        /\ r_include = Precedence(r_in.arg_include, r_in.env_include,
                                  ConfigList(r_in, "include"),
                                  IsGiven(r_in.arg_include),
                                  IsGiven(r_in.env_include))
        /\ r_exclude = Precedence(r_in.arg_exclude, r_in.env_exclude,
                                  ConfigList(r_in, "exclude"),
                                  IsGiven(r_in.arg_exclude),
                                  IsGiven(r_in.env_exclude))

\* What cli() does: a flag or variable given as the empty string counts as
\* not given, and the precedence holds among the non-empty ones.
EmptyCountsAsNotGiven ==
    Resolved =>
        /\ r_include = Precedence(r_in.arg_include, r_in.env_include,
                                  ConfigList(r_in, "include"),
                                  IsGivenNonEmpty(r_in.arg_include),
                                  IsGivenNonEmpty(r_in.env_include))
        /\ r_exclude = Precedence(r_in.arg_exclude, r_in.env_exclude,
                                  ConfigList(r_in, "exclude"),
                                  IsGivenNonEmpty(r_in.arg_exclude),
                                  IsGivenNonEmpty(r_in.env_exclude))

\* the known names of a list
Known(list) == Range(list) \cap CHECKS

\* (known included names, or all checks without an include list) minus
\* known excluded names
ExpectedSelection ==
    (IF r_include = <<>> THEN CHECKS ELSE Known(r_include)) \ Known(r_exclude)

\* the warnings printed for list `where`, in order
WarningsFor(where) ==
    SelectSeq(r_out, LAMBDA l : l.msg = "Unknown check" /\ l.where = where)

\* the unknown names of a list, in list order
UnknownNames(list) == SelectSeq(list, LAMBDA c : c \notin CHECKS)

\* C12: every unknown name of the include and exclude lists is warned
\* about, once per occurrence, and dropped: the selection is (known
\* included names, or all checks without an include list) minus known
\* excluded names; only selected checks are invoked, all of them when the
\* loop is not left early; the exit status is 0 iff every check of that
\* selection returns 0, whatever unknown names the lists hold.
C12_UnknownNamesDropped ==
    Resolved =>
        /\ r_selected = ExpectedSelection
        /\ [i \in DOMAIN WarningsFor("include") |-> WarningsFor("include")[i].name]
              = UnknownNames(r_include)
        /\ [i \in DOMAIN WarningsFor("exclude") |-> WarningsFor("exclude")[i].name]
              = UnknownNames(r_exclude)
        /\ Range(r_calls) \subseteq ExpectedSelection
        /\ r_pc = "done" =>
              /\ r_rc \in {0, 1}
              /\ r_rc = 0 <=> \A c \in ExpectedSelection : r_in.results[c] = 0
              /\ r_rc = 0 => Range(r_calls) = ExpectedSelection

\* --include schema,notreal (with CHECKS_EXCLUDE=columns,bogus): two
\* warnings, schema alone is invoked and decides the status
C12_Witness ==
    /\ r_pc = "done"
    /\ r_include = <<CheckSchema, <<"notreal">>>>
    /\ r_exclude = <<CheckColumns, <<"bogus">>>>
    /\ Len(WarningsFor("include")) = 1
    /\ Len(WarningsFor("exclude")) = 1
    /\ r_calls = <<CheckSchema>>
    /\ r_rc = 1

(***************************************************************************)
(* run(files) of checks/column_descriptions.py, with                       *)
(* iter_tables_for_files and get_lifecycle_stage of utils/io.py.           *)
(*   c_pc: "start" -> "loop" -> "footer" -> "done", or "start" -> "done"   *)
(*   when the graph cannot be loaded, or "start" -> "raised".              *)
(***************************************************************************)
\* a table record of graph["tables"]; a key that is absent holds None
TableRec(fileName, actionDescriptor, bigquery) ==
    [t |-> "obj", fileName |-> fileName,
     actionDescriptor |-> actionDescriptor, bigquery |-> bigquery]

\* {"columns": columns}
Descriptor(columns) == [t |-> "obj", columns |-> columns]

\* {"path": path, "description": description}
Column(path, description) ==
    [t |-> "obj", path |-> path, description |-> description]

\* {"labels": {"lifecycle_stage": stage}}
BigQuery(stage) ==
    [t |-> "obj", labels |-> [t |-> "obj", lifecycle_stage |-> stage]]

\* a variant of iter_tables_for_files that yields every table of the graph
IterAllTables(graph, fs) ==
    IF Truthy(graph.tables) THEN graph.tables.v ELSE <<>>

\* the tables iter_tables_for_files(graph, files) yields, in order
iter_tables_for_files(graph, fs) ==
    LET targets == Range(fs)
        tables == IF Truthy(graph.tables) THEN graph.tables.v ELSE <<>>
    IN SelectSeq(tables,
                 LAMBDA tbl : Truthy(tbl.fileName) /\ tbl.fileName.v \in targets)

\* get_lifecycle_stage(table): a str as Str(..), or None
get_lifecycle_stage(table) ==
    LET bigquery == Or(table.bigquery, EmptyDict)
    IN IF bigquery.t # "obj" THEN None
       ELSE LET labels == IF "labels" \in DOMAIN bigquery
                          THEN Or(bigquery.labels, EmptyDict) ELSE EmptyDict
            IN IF labels.t # "obj" THEN None
               ELSE LET ls == IF "lifecycle_stage" \in DOMAIN labels
                              THEN labels.lifecycle_stage ELSE None
                    IN IF IsStr(ls) THEN ls ELSE None

\* _path_to_str(path)
_path_to_str(path) ==
    IF IsStrList(path)
    THEN LET RECURSIVE Join(_)
             Join(l) == IF l = <<>> THEN <<>>
                        ELSE IF Len(l) = 1 THEN l[1].v
                        ELSE l[1].v \o <<".">> \o Join(Tail(l))
         IN Join(path.v)
    ELSE <<"[unknown]">>

MsgDraft == "Skipped (lifecycle_stage is draft)"
MsgNoColumns == "is missing defined columns."
MsgNoDescription == "Column is missing a description."
MsgColumnsFail == "Some SQLX files are missing column descriptions."
MsgColumnsOk == "All SQLX files have valid column descriptions."

\* lines 42-47: the error lines of the columns without a description
RECURSIVE ColumnErrors(_, _)
ColumnErrors(columns, file_name) ==
    IF columns = <<>> THEN <<>>
    ELSE LET col == Head(columns)
             desc == col.description
         IN (IF ~IsStr(desc) \/ Strip(desc.v, Whitespace) = <<>>
             THEN <<Line("error", MsgNoDescription, file_name,
                         <<_path_to_str(col.path)>>)>>
             ELSE <<>>) \o ColumnErrors(Tail(columns), file_name)

\* lines 20-26
ColumnsLoad ==
    /\ c_pc = "start"
    /\ LET res == load_compiled_graph(c_graph_file)
       IN IF res.exc = "GraphLoadError"
          THEN /\ c_out' = Append(c_out, Line("error", res.msg, <<>>, <<>>))
               /\ c_rc' = 1
               /\ c_pc' = "done"
               /\ UNCHANGED c_todo
          ELSE IF res.exc # ""
          THEN /\ c_pc' = "raised"
               /\ UNCHANGED <<c_out, c_rc, c_todo>>
          ELSE /\ c_todo' = iter_tables_for_files(res.graph, c_files)
               /\ c_pc' = IF c_todo' = <<>> THEN "footer" ELSE "loop"
               /\ UNCHANGED <<c_out, c_rc>>
    /\ UNCHANGED <<c_graph_file, c_files, c_has_errors, not_col_vars>>

\* lines 28-47: one iteration of the loop over the tables
ColumnsTable ==
    /\ c_pc = "loop"
    /\ c_todo # <<>>
    /\ LET table == Head(c_todo)
           file_name == table.fileName
           lifecycle == get_lifecycle_stage(table)
           descriptor == Or(table.actionDescriptor, EmptyDict)
           columns == IF "columns" \in DOMAIN descriptor
                      THEN descriptor.columns ELSE None
       IN IF lifecycle = S("draft")
          THEN /\ c_out' = Append(c_out, Line("skip", MsgDraft, file_name, <<>>))
               /\ UNCHANGED c_has_errors
          ELSE IF columns.t # "list" \/ ~Truthy(columns)
          THEN /\ c_out' = Append(c_out,
                                  Line("error", MsgNoColumns, file_name, <<>>))
               /\ c_has_errors' = TRUE
          ELSE LET errors == ColumnErrors(columns.v, file_name)
               IN /\ c_out' = c_out \o errors
                  /\ c_has_errors' = (c_has_errors \/ errors # <<>>)
    /\ c_todo' = Tail(c_todo)
    /\ c_pc' = IF Tail(c_todo) = <<>> THEN "footer" ELSE "loop"
    /\ UNCHANGED <<c_graph_file, c_files, c_rc, not_col_vars>>

\* lines 49-54
ColumnsFooter ==
    /\ c_pc = "footer"
    /\ IF c_has_errors
       THEN /\ c_out' = Append(c_out, Line("footer_fail", MsgColumnsFail, <<>>, <<>>))
            /\ c_rc' = 1
       ELSE /\ c_out' = Append(c_out, Line("footer_ok", MsgColumnsOk, <<>>, <<>>))
            /\ c_rc' = 0
    /\ c_pc' = "done"
    /\ UNCHANGED <<c_graph_file, c_files, c_todo, c_has_errors, not_col_vars>>

(***************************************************************************)
(* The inputs of the columns check.                                        *)
(***************************************************************************)
Prod == BigQuery(S("prod"))
Draft == BigQuery(S("draft"))
Described == Column(List(<<S("x")>>), S("x"))
ColumnsOf(seq) == Descriptor(List(seq))

TablePool ==
    {TableRec(Str(FileA), ColumnsOf(<<Described>>), Prod),
     \* a blank, a missing, a non-string and an empty description
     TableRec(Str(FileA),
              ColumnsOf(<<Described, Column(None, Str(<<" ", " ">>))>>), Prod),
     TableRec(Str(FileA), ColumnsOf(<<Column(List(<<S("x"), S("y")>>), None)>>),
              Prod),
     TableRec(Str(FileA), ColumnsOf(<<Column(None, Bool(TRUE))>>), Prod),
     TableRec(Str(FileA), ColumnsOf(<<Column(S("x"), Str(<<>>)), Described>>),
              Prod),
     \* an empty list of columns, no actionDescriptor, no "columns" key, and
     \* "columns" that is not a list
     TableRec(Str(FileA), ColumnsOf(<<>>), Prod),
     TableRec(Str(FileA), None, Prod),
     TableRec(Str(FileA), EmptyDict, Prod),
     TableRec(Str(FileA), Descriptor(S("x")), Prod),
     \* drafts
     TableRec(Str(FileA), ColumnsOf(<<>>), Draft),
     TableRec(Str(FileA), ColumnsOf(<<Column(None, None)>>), Draft),
     \* no lifecycle stage: no "bigquery", "bigquery" that is not a dict, a
     \* stage that is not a string
     TableRec(Str(FileA), ColumnsOf(<<Described>>), None),
     TableRec(Str(FileA), ColumnsOf(<<>>), S("draft")),
     TableRec(Str(FileA), ColumnsOf(<<>>), BigQuery(Bool(TRUE))),
     TableRec(Str(FileA), ColumnsOf(<<Described>>),
              [t |-> "obj", labels |-> S("draft")]),
     \* tables of b.sqlx and a table without fileName
     TableRec(Str(FileB), ColumnsOf(<<Described>>), Prod),
     TableRec(Str(FileB), ColumnsOf(<<>>), Prod),
     TableRec(Str(FileB), ColumnsOf(<<>>), Draft),
     TableRec(None, ColumnsOf(<<>>), Prod)}

ColumnsGraphFiles ==
    {[state |-> "ok", graph |-> Graph(None, List(tbls), None)] :
        tbls \in SeqsUpTo(TablePool, MaxActions)}
    \cup {[state |-> "ok", graph |-> Graph(None, None, None)]}
    \cup {[state |-> st, graph |-> None] : st \in FileStates \ {"ok"}}

InitColumns ==
    /\ c_graph_file \in ColumnsGraphFiles
    /\ c_files \in SeqsUpTo(FileNames, MaxFiles)
    /\ c_pc = "start"
    /\ c_todo = <<>>
    /\ c_has_errors = FALSE
    /\ c_out = <<>>
    /\ c_rc = NoRc
    /\ FqnIdle
    /\ RunnerIdle
    /\ SchemaIdle
    /\ WalkIdle
    /\ ExtractIdle

NextColumns == ColumnsLoad \/ ColumnsTable \/ ColumnsFooter

SpecColumns == InitColumns /\ [][NextColumns]_vars

(***************************************************************************)
(* Properties of the columns check.                                        *)
(***************************************************************************)
\* the tables of the graph on disk
GraphTables ==
    IF c_graph_file.state = "ok" /\ c_graph_file.graph.tables # None
    THEN Range(c_graph_file.graph.tables.v) ELSE {}

\* the table is in lifecycle stage "draft"
IsDraft(tbl) ==
    /\ tbl.bigquery.t = "obj"
    /\ "labels" \in DOMAIN tbl.bigquery
    /\ tbl.bigquery.labels.t = "obj"
    /\ tbl.bigquery.labels.lifecycle_stage = S("draft")

\* the table has a non-empty list of columns
HasColumns(tbl) ==
    /\ tbl.actionDescriptor.t = "obj"
    /\ "columns" \in DOMAIN tbl.actionDescriptor
    /\ tbl.actionDescriptor.columns.t = "list"
    /\ tbl.actionDescriptor.columns.v # <<>>

\* the description is missing, not a string, or blank
BadDescription(col) ==
    \/ col.description = None
    \/ col.description.t # "str"
    \/ \A i \in DOMAIN col.description.v : col.description.v[i] = " "

\* the table is at fault: no non-empty list of columns, or a column with a
\* bad description
AtFault(tbl) ==
    \/ ~HasColumns(tbl)
    \/ \E i \in DOMAIN tbl.actionDescriptor.columns.v :
          BadDescription(tbl.actionDescriptor.columns.v[i])

InInputFiles(tbl) == tbl.fileName # None /\ tbl.fileName.v \in Range(c_files)

\* C13: for a graph that loads, the columns check returns 1 iff some table
\* of the graph whose fileName is among the input files is not a draft and
\* is at fault, and 0 otherwise; drafts and tables of other files do not
\* count.
C13_ColumnsStatus ==
    (c_pc = "done" /\ c_graph_file.state = "ok") =>
        /\ c_rc \in {0, 1}
        /\ c_rc = 1 <=> \E tbl \in GraphTables :
                            InInputFiles(tbl) /\ ~IsDraft(tbl) /\ AtFault(tbl)

\* a draft with empty columns among the input files and a faulty table of
\* a file that was not passed in: the check returns 0
C13_Witness ==
    /\ c_pc = "done"
    /\ c_rc = 0
    /\ c_files = <<FileA>>
    /\ \E tbl \in GraphTables : InInputFiles(tbl) /\ IsDraft(tbl) /\ AtFault(tbl)
    /\ \E tbl \in GraphTables :
          tbl.fileName = Str(FileB) /\ ~IsDraft(tbl) /\ AtFault(tbl)

(***************************************************************************)
(* checks/schema.py.  The text of a .sqlx file is a sequence of tokens:    *)
(* words, and one token for each of the characters and character pairs     *)
(* the code looks for: "{", "}", ":", ",", " ", the newline ("NEWLINE"),   *)
(* the double and the single quote ("DQUOTE", "SQUOTE"), and the comment   *)
(* marks "/*", "*/" and "//".  No two words are adjacent, so a word        *)
(* token stands between word boundaries (\b).                              *)
(***************************************************************************)
Newline == "NEWLINE"
DQuote == "DQUOTE"
SQuote == "SQUOTE"
Quotes == {DQuote, SQuote}

\* \s, and the characters str.strip() removes
SqlxWhitespace == {" ", Newline}

\* the words made of [a-zA-Z_] only
LetterWords ==
    {"config", "type", "schema", "table", "view", "incremental", "assertion",
     "VIEW", "analytics", "x", "bigquery", "labels"}

\* str.lower() of a word
Lower(w) == IF w = "VIEW" THEN "view" ELSE w

VALID_TYPES == {"view", "table", "incremental"}

\* s[i..j]
Slice(s, i, j) == SubSeq(s, i, j)

\* content.find("config {", from): the least index >= from, 0 for -1
RECURSIVE FindConfig(_, _)
FindConfig(content, from) ==
    IF from + 2 > Len(content) THEN 0
    ELSE IF /\ content[from] = "config"
            /\ content[from + 1] = " "
            /\ content[from + 2] = "{"
    THEN from
    ELSE FindConfig(content, from + 1)

\* lines 22-32: the loop from index i with the given brace_count and
\* start_idx (0 for -1); the result is <<start_idx, end_idx>>
RECURSIVE BraceScan(_, _, _, _)
BraceScan(content, i, brace_count, start_idx) ==
    IF i > Len(content) THEN <<start_idx, 0>>
    ELSE IF content[i] = "{"
    THEN BraceScan(content, i + 1, brace_count + 1,
                   IF start_idx = 0 THEN i ELSE start_idx)
    ELSE IF content[i] = "}"
    THEN IF brace_count - 1 = 0 THEN <<start_idx, i>>
         ELSE BraceScan(content, i + 1, brace_count - 1, start_idx)
    ELSE BraceScan(content, i + 1, brace_count, start_idx)

\* _extract_config_block(content): None, or the block as Str(..)
_extract_config_block(content) ==
    LET start == FindConfig(content, 1)
    IN IF start = 0 THEN None
       ELSE LET scan == BraceScan(content, start, 0, 0)
                start_idx == scan[1]
                end_idx == scan[2]
            IN IF start_idx = 0 \/ end_idx = 0 THEN None
               ELSE Str(Strip(Slice(content, start_idx + 1, end_idx - 1),
                              SqlxWhitespace))

\* the least index >= i of text that holds a token of marks, 0 without one
RECURSIVE IndexOf(_, _, _)
IndexOf(text, i, marks) ==
    IF i > Len(text) THEN 0
    ELSE IF text[i] \in marks THEN i
    ELSE IndexOf(text, i + 1, marks)

\* re.sub(r"/\*.*?\*/", "", text, flags=re.DOTALL)
RECURSIVE StripBlockComments(_)
StripBlockComments(text) ==
    LET open == IndexOf(text, 1, {"/*"})
        close == IF open = 0 THEN 0 ELSE IndexOf(text, open + 1, {"*/"})
    IN IF open = 0 \/ close = 0 THEN text
       ELSE Slice(text, 1, open - 1)
            \o StripBlockComments(Slice(text, close + 1, Len(text)))

\* re.sub(r"//.*?$", "", text, flags=re.MULTILINE)
RECURSIVE StripLineComments(_)
StripLineComments(text) ==
    LET open == IndexOf(text, 1, {"//"})
        eol == IF open = 0 THEN 0 ELSE IndexOf(text, open + 1, {Newline})
    IN IF open = 0 THEN text
       ELSE IF eol = 0 THEN Slice(text, 1, open - 1)
       ELSE Slice(text, 1, open - 1)
            \o StripLineComments(Slice(text, eol, Len(text)))

\* _strip_js_comments(text)
_strip_js_comments(text) == StripLineComments(StripBlockComments(text))

\* the index of the first token at or after i that \s* does not consume
RECURSIVE SkipSpace(_, _)
SkipSpace(text, i) ==
    IF i <= Len(text) /\ text[i] \in SqlxWhitespace
    THEN SkipSpace(text, i + 1) ELSE i

\* the index after `key \s* : \s*` matched at i, 0 without a match
AfterKey(text, i, key) ==
    IF text[i] # key THEN 0
    ELSE LET j == SkipSpace(text, i + 1)
         IN IF j > Len(text) \/ text[j] # ":" THEN 0
            ELSE SkipSpace(text, j + 1)

\* TYPE_RE matched at index i: <<val>>, or <<>> without a match
TypeMatchAt(text, i) ==
    LET k == AfterKey(text, i, "type")
    IN IF k = 0 \/ k > Len(text) THEN <<>>
       ELSE IF text[k] \in Quotes
       THEN IF /\ k + 2 <= Len(text)
               /\ text[k + 1] \in LetterWords
               /\ text[k + 2] = text[k]
            THEN <<text[k + 1]>> ELSE <<>>
       ELSE IF text[k] \in LetterWords THEN <<text[k]>>
       ELSE <<>>

\* TYPE_RE.search(cfg): <<val>> of the leftmost match, <<>> for None
RECURSIVE TypeSearch(_, _)
TypeSearch(text, i) ==
    IF i > Len(text) THEN <<>>
    ELSE IF TypeMatchAt(text, i) # <<>> THEN TypeMatchAt(text, i)
    ELSE TypeSearch(text, i + 1)

\* SCHEMA_RE matched at index i: <<val>>, or <<>> without a match
SchemaMatchAt(text, i) ==
    LET k == AfterKey(text, i, "schema")
    IN IF k = 0 \/ k > Len(text) THEN <<>>
       ELSE IF text[k] \notin Quotes THEN <<>>
       ELSE LET m == IndexOf(text, k + 1, Quotes)
            IN IF m = 0 \/ m = k + 1 \/ text[m] # text[k] THEN <<>>
               ELSE <<Slice(text, k + 1, m - 1)>>

\* SCHEMA_RE.search(cfg): <<val>> of the leftmost match, <<>> for None
RECURSIVE SchemaSearch(_, _)
SchemaSearch(text, i) ==
    IF i > Len(text) THEN <<>>
    ELSE IF SchemaMatchAt(text, i) # <<>> THEN SchemaMatchAt(text, i)
    ELSE SchemaSearch(text, i + 1)

MsgReadFailed == "Failed to read file."
MsgNoConfig == "Missing or malformed config block."
MsgSkippedType == "Skipped (type is ...)"
MsgNoSchema == "Schema must be explicitly set."
MsgSchemaFail == "Some SQLX files are missing explicit schema."
MsgSchemaOk == "All relevant SQLX files have an explicit schema set."

\* lines 60-90: the lines one iteration prints for a file whose read_text
\* gives `read` ([ok |-> FALSE] when it raises)
SchemaOfFile(file_path, read) ==
    IF ~read.ok THEN <<Line("error", MsgReadFailed, file_path, <<>>)>>
    ELSE LET block == _extract_config_block(read.content)
         IN IF ~Truthy(block)
            THEN <<Line("error", MsgNoConfig, file_path, <<>>)>>
            ELSE LET cfg == _strip_js_comments(block.v)
                     m_type == TypeSearch(cfg, 1)
                     m_schema == SchemaSearch(cfg, 1)
                 IN IF m_type # <<>> /\ Lower(m_type[1]) \notin VALID_TYPES
                    THEN <<Line("skip", MsgSkippedType, file_path,
                                <<Lower(m_type[1])>>)>>
                    ELSE IF \/ m_schema = <<>>
                            \/ Strip(m_schema[1], SqlxWhitespace) = <<>>
                    THEN <<Line("error", MsgNoSchema, file_path, <<>>)>>
                    ELSE <<>>

(***************************************************************************)
(* The inputs of the schema check: the .sqlx files on disk.  A file is     *)
(* described by how it was written: the shape of its config block, the     *)
(* way it declares its type and the way it sets its schema.                *)
(***************************************************************************)
Sp == <<" ">>
Quoted(q, w) == <<q, w, q>>

TypeWays ==
    {"none", "table", "incremental_unquoted", "assertion", "VIEW",
     "assertion_commented", "table2"}

\* the text of each way of declaring the type
TypeText(way) ==
    CASE way = "none" -> <<>>
      [] way = "table" ->
           <<"type", ":", " ">> \o Quoted(DQuote, "table") \o <<",", Newline>>
      [] way = "incremental_unquoted" ->
           <<"type", ":", " ", "incremental", ",", Newline>>
      [] way = "assertion" ->
           <<"type", ":", " ">> \o Quoted(SQuote, "assertion") \o <<",", Newline>>
      [] way = "VIEW" ->
           <<"type", " ", ":">> \o Quoted(DQuote, "VIEW") \o <<",", Newline>>
      [] way = "assertion_commented" ->
           <<"//", " ", "type", ":", " ">> \o Quoted(DQuote, "assertion")
           \o <<Newline>>
      [] way = "table2" ->
           <<"type", ":", " ">> \o Quoted(DQuote, "table2") \o <<",", Newline>>

SchemaWays ==
    {"none", "analytics", "single_quoted", "blank", "empty", "unquoted",
     "mismatched_quotes", "in_block_comment", "in_line_comment",
     "after_line_comment", "between_block_comments", "blank_then_analytics"}

SchemaAnalytics == <<"schema", ":", " ">> \o Quoted(DQuote, "analytics")

\* the text of each way of setting the schema
SchemaText(way) ==
    CASE way = "none" -> <<>>
      [] way = "analytics" -> SchemaAnalytics
      [] way = "single_quoted" ->
           <<"schema", " ", ":", Newline>> \o Quoted(SQuote, "x")
      [] way = "blank" -> <<"schema", ":", " ", DQuote, " ", " ", DQuote>>
      [] way = "empty" -> <<"schema", ":", " ", DQuote, DQuote>>
      [] way = "unquoted" -> <<"schema", ":", " ", "x">>
      [] way = "mismatched_quotes" -> <<"schema", ":", " ", DQuote, "x", SQuote>>
      [] way = "in_block_comment" ->
           <<"/*", " ">> \o SchemaAnalytics \o <<" ", "*/">>
      [] way = "in_line_comment" ->
           <<"//", " ">> \o SchemaAnalytics \o <<Newline>>
      [] way = "after_line_comment" ->
           <<"//", " ", "x", Newline>> \o SchemaAnalytics
      [] way = "between_block_comments" ->
           <<"/*", "x", "*/", " ">> \o SchemaAnalytics \o <<" ", "/*", "x", "*/">>
      [] way = "blank_then_analytics" ->
           <<"schema", ":", " ", DQuote, " ", DQuote, ",", " ">>
           \o SchemaAnalytics

Shapes ==
    {"plain", "nested", "unclosed", "nested_unclosed", "no_config",
     "brace_in_comment"}

Rest == <<Newline, "select 1">>
NestedObject == <<"bigquery", ":", " ", "{", "labels", ":", " ", "{", "}", "}", ",", " ">>

\* the text of a file written in the given shape
FileText(shape, type_way, schema_way) ==
    CASE shape = "plain" ->
           <<Newline, "config", " ", "{", Newline, " ">> \o TypeText(type_way)
           \o Sp \o SchemaText(schema_way) \o <<Newline, "}">> \o Rest
      [] shape = "nested" ->
           <<"config", " ", "{", " ">> \o TypeText(type_way) \o NestedObject
           \o SchemaText(schema_way) \o <<" ", "}">> \o Rest
      [] shape = "unclosed" ->
           <<"config", " ", "{", " ">> \o TypeText(type_way)
           \o SchemaText(schema_way) \o Rest
      [] shape = "nested_unclosed" ->
           <<"config", " ", "{", " ">> \o TypeText(type_way)
           \o <<"bigquery", ":", " ", "{", " ">> \o SchemaText(schema_way)
           \o <<" ", "}">> \o Rest
      [] shape = "no_config" -> <<"select 1", Newline>> \o SchemaText(schema_way)
      [] shape = "brace_in_comment" ->
           <<"config", " ", "{", " ">> \o TypeText(type_way)
           \o <<"/*", " ", "}", " ", "*/", " ">> \o SchemaText(schema_way)
           \o <<" ", "}">> \o Rest

\* a file on disk: unreadable, or written in a shape with a type and a schema
SqlxFile(shape, type_way, schema_way) ==
    [readable |-> TRUE, shape |-> shape, type |-> type_way, schema |-> schema_way]
Unreadable ==
    [readable |-> FALSE, shape |-> "plain", type |-> "none", schema |-> "none"]

\* path.read_text(encoding="utf-8")
read_text(file) ==
    IF file.readable
    THEN [ok |-> TRUE, content |-> FileText(file.shape, file.type, file.schema)]
    ELSE [ok |-> FALSE]

SqlxFiles ==
    {SqlxFile("plain", ty, sc) : ty \in TypeWays, sc \in SchemaWays}
    \cup {SqlxFile(sh, ty, sc) :
            sh \in Shapes \ {"plain"}, ty \in {"none", "table", "assertion"},
            sc \in {"none", "analytics"}}
    \cup {Unreadable}

\* lines 56-59
SchemaStart ==
    /\ s_pc = "start"
    /\ s_todo' = s_files
    /\ s_pc' = IF s_files = <<>> THEN "footer" ELSE "loop"
    /\ UNCHANGED <<s_disk, s_files, s_has_errors, s_out, s_rc, not_sch_vars>>

\* one iteration of `for file_path in files`
SchemaFile ==
    /\ s_pc = "loop"
    /\ s_todo # <<>>
    /\ LET file_path == Head(s_todo)
           lines == SchemaOfFile(file_path, read_text(s_disk[file_path]))
       IN /\ s_out' = s_out \o lines
          /\ s_has_errors' =
                (s_has_errors \/ \E i \in DOMAIN lines : lines[i].fn = "error")
    /\ s_todo' = Tail(s_todo)
    /\ s_pc' = IF Tail(s_todo) = <<>> THEN "footer" ELSE "loop"
    /\ UNCHANGED <<s_disk, s_files, s_rc, not_sch_vars>>

\* lines 92-97
SchemaFooter ==
    /\ s_pc = "footer"
    /\ IF s_has_errors
       THEN /\ s_out' = Append(s_out, Line("footer_fail", MsgSchemaFail, <<>>, <<>>))
            /\ s_rc' = 1
       ELSE /\ s_out' = Append(s_out, Line("footer_ok", MsgSchemaOk, <<>>, <<>>))
            /\ s_rc' = 0
    /\ s_pc' = "done"
    /\ UNCHANGED <<s_disk, s_files, s_todo, s_has_errors, not_sch_vars>>

InitSchema ==
    /\ s_files \in SeqsUpTo(FileNames, MaxFiles)
    /\ s_disk \in [Range(s_files) -> SqlxFiles]
    /\ s_pc = "start"
    /\ s_todo = <<>>
    /\ s_has_errors = FALSE
    /\ s_out = <<>>
    /\ s_rc = NoRc
    /\ FqnIdle
    /\ RunnerIdle
    /\ ColumnsIdle
    /\ WalkIdle
    /\ ExtractIdle

NextSchema == SchemaStart \/ SchemaFile \/ SchemaFooter

SpecSchema == InitSchema /\ [][NextSchema]_vars

(***************************************************************************)
(* Properties of the schema check.  What a file declares is read off the   *)
(* way it was written.                                                     *)
(***************************************************************************)
\* the file has a `config {` block with a matching closing brace
HasConfigBlock(file) == file.shape \in {"plain", "nested", "brace_in_comment"}

\* the type the config block declares outside comments, "" for none:
\* letter case is ignored, and "table2", which is no word of letters,
\* declares none
DeclaredType(file) ==
    CASE file.type = "table" -> "table"
      [] file.type = "incremental_unquoted" -> "incremental"
      [] file.type = "assertion" -> "assertion"
      [] file.type = "VIEW" -> "view"
      [] OTHER -> ""

Relevant(file) == DeclaredType(file) \in VALID_TYPES \cup {""}

\* the config block has, outside comments, a quoted non-blank schema value
HasQuotedSchema(file) ==
    file.schema \in {"analytics", "single_quoted", "after_line_comment",
                     "between_block_comments", "blank_then_analytics"}

\* the file makes the check fail, as C14 states it
FailsAsStated(file) ==
    \/ ~file.readable
    \/ ~HasConfigBlock(file)
    \/ Relevant(file) /\ ~HasQuotedSchema(file)

\* the lines printed for file name f
LinesOf(f) == SelectSeq(s_out, LAMBDA l : l.display = f)

\* a readable file with a config block and a declared type outside
\* view/table/incremental gets a skip line and no error
SkippedWhenNotRelevant ==
    \A i \in DOMAIN s_files :
        LET file == s_disk[s_files[i]]
        IN (file.readable /\ HasConfigBlock(file) /\ ~Relevant(file)) =>
              \A k \in DOMAIN LinesOf(s_files[i]) :
                  LinesOf(s_files[i])[k].fn = "skip"

\* C14: the schema check returns 1 iff some input file is unreadable, or
\* has no `config {` block with a matching closing brace, or has a block
\* whose declared type, if any, is view, table or incremental and which
\* holds no quoted non-blank schema value outside comments; a file whose
\* declared type is another one is skipped and never causes failure.
C14_SchemaStatus ==
    /\ s_pc = "done" =>
          /\ s_rc \in {0, 1}
          /\ s_rc = 1 <=>
                \E i \in DOMAIN s_files : FailsAsStated(s_disk[s_files[i]])
    /\ SkippedWhenNotRelevant

\* What run() does.  The block ends at the first brace that balances
\* `config {`, also when that brace is inside a comment, and what follows
\* it is not looked at; and of several quoted non-empty schema values
\* only the first is looked at.
SchemaInBlock(file) == file.shape # "brace_in_comment"

FirstSchemaNonBlank(file) ==
    file.schema \in {"analytics", "single_quoted", "after_line_comment",
                     "between_block_comments"}

FailsAsCoded(file) ==
    \/ ~file.readable
    \/ ~HasConfigBlock(file)
    \/ Relevant(file) /\ ~(SchemaInBlock(file) /\ FirstSchemaNonBlank(file))

SchemaStatusAsCoded ==
    /\ s_pc = "done" =>
          /\ s_rc \in {0, 1}
          /\ s_rc = 1 <=>
                \E i \in DOMAIN s_files : FailsAsCoded(s_disk[s_files[i]])
    /\ SkippedWhenNotRelevant

(***************************************************************************)
(* The lines of a run of the hard-coded-FQN check.                         *)
(***************************************************************************)
\* what Printer prints a line with: footer_ok calls success and
\* footer_fail calls error
PrintedWith(fn) ==
    CASE fn = "footer_ok" -> "success"
      [] fn = "footer_fail" -> "error"
      [] OTHER -> fn

\* the run has ended: run() has returned or has raised
Ended == pc \in {"done", "raised"}

IsFinding(l) == l.msg = MsgFinding
IsFail(l) == PrintedWith(l.fn) = "error"
IsPass(l) == PrintedWith(l.fn) = "success"

\* the lines are finding lines followed by one summary line, which is a
\* fail line exactly when the status is 1
OneSummaryLine ==
    /\ out # <<>>
    /\ \A i \in 1..(Len(out) - 1) : IsFinding(out[i])
    /\ LET last == out[Len(out)]
       IN /\ ~IsFinding(last)
          /\ IsPass(last) \/ IsFail(last)
          /\ IsFail(last) <=> rc = 1

\* C15: every run of the check ends with exactly one summary line (pass
\* or fail), after all finding lines of the run; the summary is a fail line
\* exactly when the returned status is 1.
C15_SummaryLine == Ended => OneSummaryLine

\* What holds: every run that returns has printed its finding lines and
\* then one summary line, a fail line iff it returns 1.
ReturnedWithSummaryLine == pc = "done" => OneSummaryLine /\ rc \in {0, 1}

(***************************************************************************)
(* The loop of _extract_read_tables over the Table nodes of a tree, one    *)
(* node per step, for every tree of at most MaxNodes nodes made of         *)
(* CREATE, INSERT and COPY statements, other expressions ("Select") and    *)
(* Table nodes.  A node's parent precedes it; a Table is a leaf; the       *)
(* `this` slot of a statement holds one of its children or nothing.  All   *)
(* tables are called ds.x, so nodes differ by identity only.               *)
(***************************************************************************)
StatementKinds == {"Create", "Insert", "Copy"}
InnerKinds == StatementKinds \cup {"Select"}

\* the trees of n nodes, `this` slots still empty
RECURSIVE Skeletons(_)
Skeletons(n) ==
    IF n = 1 THEN {<<Node(k, 0, 0)>> : k \in InnerKinds}
    ELSE LET smaller == Skeletons(n - 1)
             Inner(t) == {i \in DOMAIN t : t[i].kind # "Table"}
         IN UNION {
              {Append(t, Node(k, p, 0)) : k \in InnerKinds, p \in Inner(t)}
              \cup {Append(t, Table(p, <<>>, <<"ds">>, <<"x">>)) : p \in Inner(t)}
              : t \in smaller}

\* what the `this` slot of node i may hold
SlotChoices(t, i) ==
    IF t[i].kind \in StatementKinds
    THEN {0} \cup {j \in DOMAIN t : t[j].parent = i}
    ELSE {0}

\* the ways of filling the `this` slots of nodes i..Len(t)
RECURSIVE Slots(_, _)
Slots(t, i) ==
    IF i > Len(t) THEN {<<>>}
    ELSE {<<c>> \o rest : c \in SlotChoices(t, i), rest \in Slots(t, i + 1)}

WithSlots(t, slots) == [i \in DOMAIN t |-> [t[i] EXCEPT !.this = slots[i]]]

\* the trees of at most max nodes
WalkedTrees(max) ==
    UNION {{WithSlots(t, sl) : sl \in Slots(t, 1)} :
              t \in UNION {Skeletons(n) : n \in 1..max}}

\* the nodes of a set in ascending order
RECURSIVE Ascending(_)
Ascending(nodes) ==
    IF nodes = {} THEN <<>>
    ELSE LET m == CHOOSE i \in nodes : \A j \in nodes : i <= j
         IN <<m>> \o Ascending(nodes \ {m})

\* one iteration of `for t in tree.find_all(exp.Table)`: the test of
\* _is_write_target
Classify ==
    /\ w_todo # <<>>
    /\ w_marks' = Append(w_marks,
                         [node |-> Head(w_todo),
                          write_target |-> _is_write_target(w_tree, Head(w_todo))])
    /\ w_todo' = Tail(w_todo)
    /\ UNCHANGED <<w_tree, not_wt_vars>>

InitWalk ==
    /\ w_tree \in WalkedTrees(MaxNodes)
    /\ w_todo = Ascending(FindAll(w_tree, "Table"))
    /\ w_marks = <<>>
    /\ FqnIdle
    /\ RunnerIdle
    /\ ColumnsIdle
    /\ SchemaIdle
    /\ ExtractIdle

NextWalk == Classify

SpecWalk == InitWalk /\ [][NextWalk]_vars

(***************************************************************************)
(* Properties of _is_write_target.                                         *)
(***************************************************************************)
\* the proper ancestors of node i
RECURSIVE AncestorsOf(_, _)
AncestorsOf(tree, i) ==
    IF tree[i].parent = 0 THEN {}
    ELSE {tree[i].parent} \cup AncestorsOf(tree, tree[i].parent)

\* the nearest enclosing statement of a kind, 0 if none: parents precede
\* their children, so it is the enclosing one with the greatest index
NearestEnclosing(tree, i, kind) ==
    LET enclosing == {j \in AncestorsOf(tree, i) : tree[j].kind = kind}
    IN IF enclosing = {} THEN 0
       ELSE CHOOSE j \in enclosing : \A k \in enclosing : k <= j

\* node i is the node in the target slot of statement st
InTargetSlot(tree, i, st) == st # 0 /\ tree[st].this = i

\* C16: a Table node is taken for a write target iff it is the node in
\* the target slot of its nearest enclosing CREATE, or of its nearest
\* enclosing INSERT, or of its nearest enclosing COPY (by identity: another
\* node with the same table name is a read reference), the INSERT and COPY
\* tests applying also under an enclosing CREATE.
C16_WriteTarget ==
    \A m \in DOMAIN w_marks :
        LET i == w_marks[m].node
        IN w_marks[m].write_target <=>
              \E kind \in StatementKinds :
                  InTargetSlot(w_tree, i, NearestEnclosing(w_tree, i, kind))

\* What _is_write_target does: only the first kind, in the order CREATE,
\* INSERT, COPY, that encloses the node is tested.
FirstEnclosingKind(tree, i) ==
    IF NearestEnclosing(tree, i, "Create") # 0 THEN "Create"
    ELSE IF NearestEnclosing(tree, i, "Insert") # 0 THEN "Insert"
    ELSE "Copy"

WriteTargetOfFirstKind ==
    \A m \in DOMAIN w_marks :
        LET i == w_marks[m].node
        IN w_marks[m].write_target <=>
              InTargetSlot(w_tree, i,
                           NearestEnclosing(w_tree, i, FirstEnclosingKind(w_tree, i)))

(***************************************************************************)
(* Graphs with incomplete and malformed records: run() on a graph of one   *)
(* or two records, the first with a target or a dependencies list of       *)
(* every shape.                                                            *)
(***************************************************************************)
Ticked(w) == Str(<<"BACKTICK", w, "BACKTICK">>)

TargetDatabases == {None, Str(<<>>), S("proj"), Ticked("proj")}
TargetSchemas == {None, Str(<<>>), S("ds"), Ticked("ds"), S("BACKTICK")}
TargetNames == {None, Str(<<>>), S("a"), Ticked("a")}

\* what a record can hold under "target"
TargetValues ==
    {Target(d, sc, n) : d \in TargetDatabases, sc \in TargetSchemas,
                        n \in TargetNames}
    \cup {None, EmptyDict, List(<<>>), Str(<<>>), S("ds.a"),
          List(<<S("ds"), S("a")>>)}

\* action a of a.sqlx, reading ds.b
RecordA(target, canonicalTarget, dependencies) ==
    Action(Str(NameA), None, Str(FileA), target, canonicalTarget,
           Str(SqlFromDsB), None, None, dependencies)

\* what a record can hold under "dependencies"
DependencyValues ==
    {None, List(<<>>), List(<<Str(NameB)>>), Str(NameB),
     List(<<Str(NameB), None>>), List(<<Bool(TRUE), Str(NameB)>>),
     List(<<None>>)}

FirstRecords ==
    {RecordA(tg, None, None) : tg \in TargetValues}
    \cup {RecordA(tg, TargetDs("a"), None) :
            tg \in {None, EmptyDict, Target(S("proj"), None, S("a"))}}
    \cup {RecordA(TargetDs("a"), None, deps) : deps \in DependencyValues}

\* action b of b.sqlx with target ds.b, and two more records named a
SecondRecords ==
    {Action(Str(NameB), None, Str(FileB), TargetDs("b"), None, Str(SqlSelect1),
            None, None, List(<<>>)),
     Action(Str(NameA), None, Str(FileB), None, None, Str(SqlSelect1), None,
            None, None),
     Action(None, Str(NameA), Str(FileB), Target(S("proj"), S("ds"), S("b")),
            None, Str(SqlSelect1), None, None, None)}

RecordGraphFiles ==
    {[state |-> "ok", graph |-> Graph(List(acts), None, None)] :
        acts \in {<<r>> : r \in FirstRecords}
                 \cup {<<r, r2>> : r \in FirstRecords, r2 \in SecondRecords}
                 \cup {<<r2, r>> : r \in FirstRecords, r2 \in SecondRecords}}
    \cup {[state |-> "missing", graph |-> None]}

InitRecords ==
    /\ graph_file \in RecordGraphFiles
    /\ files \in SeqsUpTo(FileNames, MaxFiles)
    /\ pc = "start"
    /\ loads = 0
    /\ index = NoIndex
    /\ to_check = {}
    /\ todo = <<>>
    /\ evaluated = <<>>
    /\ has_errors = FALSE
    /\ out = <<>>
    /\ rc = NoRc
    /\ RunnerIdle
    /\ ColumnsIdle
    /\ SchemaIdle
    /\ WalkIdle
    /\ ExtractIdle

SpecRecords == InitRecords /\ [][Next]_vars

(***************************************************************************)
(* Properties of the index over graphs with incomplete records.            *)
(***************************************************************************)
\* _index_actions has returned and its result is in use
IndexBuilt == pc \in {"scope", "loop", "footer"}

\* the value under a key of a target, "" when the key is absent or null
Field(target, key) ==
    IF target.t = "obj" /\ key \in DOMAIN target /\ IsStr(target[key])
    THEN target[key].v ELSE <<>>

Unticked(s) == Strip(s, Backtick)

\* the identifier C17 states for a target
StatedFqn(target) ==
    LET database == Unticked(Field(target, "database"))
        schema == Unticked(Field(target, "schema"))
        name == Unticked(Field(target, "name"))
    IN IF database # <<>>
       THEN database \o <<".">> \o schema \o <<".">> \o name
       ELSE schema \o <<".">> \o name

\* C17 (as stated): after index construction, name_to_fqn has an entry for an
\* action name if and only if the target of the action indexed under that
\* name has both a non-empty schema and a non-empty table name, and the entry
\* is database.schema.name or schema.name with backticks stripped.
C17_EntryIffSchemaAndName ==
    IndexBuilt =>
        \A n \in DOMAIN index.by_name :
            LET target == TargetOf(index.by_name[n])
            IN /\ n \in DOMAIN index.name_to_fqn
                   <=> (Field(target, "schema") # <<>>
                        /\ Field(target, "name") # <<>>)
               /\ n \in DOMAIN index.name_to_fqn
                   => index.name_to_fqn[n] = StatedFqn(target)

\* schema and table name are both non-empty once backticks are stripped
FullTarget(target) ==
    /\ Unticked(Field(target, "schema")) # <<>>
    /\ Unticked(Field(target, "name")) # <<>>

\* the positions of the records indexed under name n that have a full target
FullRecords(n) ==
    {i \in DOMAIN GraphActions :
        /\ Or(GraphActions[i].name, GraphActions[i].id) = Str(n)
        /\ FullTarget(TargetOf(GraphActions[i]))}

Last(positions) == CHOOSE x \in positions : \A y \in positions : y <= x

\* C17 (amended): after index construction, name_to_fqn has an entry for an
\* action name if and only if some record of that name has a target (target,
\* else canonicalTarget) whose schema and table name are both non-empty once
\* backticks are stripped; the entry is that of the last such record,
\* database.schema.name when its stripped database is non-empty and
\* schema.name otherwise.
C17_EntryIffStrippedSchemaAndName ==
    IndexBuilt =>
        \A n \in DOMAIN index.by_name :
            /\ n \in DOMAIN index.name_to_fqn <=> FullRecords(n) # {}
            /\ FullRecords(n) # {}
                => index.name_to_fqn[n]
                     = StatedFqn(TargetOf(GraphActions[Last(FullRecords(n))]))

\* the index is built from a record a that has a database and a table name
\* but no schema, and from a record b with schema and table name
C17_Witness ==
    /\ IndexBuilt
    /\ \E i \in DOMAIN GraphActions :
          LET target == TargetOf(GraphActions[i])
          IN /\ Field(target, "database") # <<>>
             /\ Field(target, "name") # <<>>
             /\ Field(target, "schema") = <<>>
             /\ NameA \notin DOMAIN index.name_to_fqn
    /\ NameB \in DOMAIN index.name_to_fqn
    /\ index.name_to_fqn[NameB] = <<"ds", ".", "b">>

\* the records with a name whose "target" is absent, null, no object, or an
\* object that lacks schema or table name
MalformedTargetRecords ==
    {i \in DOMAIN GraphActions :
        /\ IsStr(Or(GraphActions[i].name, GraphActions[i].id))
        /\ ~FullTarget(GraphActions[i].target)}

EvaluatedNames == {evaluated[i].name : i \in DOMAIN evaluated}

\* what C18 states of the record at position i, once the run is past the
\* construction of the index
IndexedAndAudited(i) ==
    LET a == GraphActions[i]
        n == Or(a.name, a.id).v
    IN /\ IndexBuilt \/ pc = "done"
       /\ n \in DOMAIN index.by_name
       /\ FullRecords(n) = {} => n \notin DOMAIN index.name_to_fqn
       /\ IsStr(a.fileName)
            => /\ a.fileName.v \in DOMAIN index.by_file
               /\ n \in Range(index.by_file[a.fileName.v])
               /\ (pc = "done" /\ a.fileName.v \in Range(files))
                    => n \in EvaluatedNames

\* the graph was loaded and the run is past the call of _index_actions
PastIndex == graph_file.state = "ok" /\ pc \notin {"start", "index"}

\* C18: an action with a missing or malformed target (absent, null, not an
\* object, or lacking schema/name) never makes index construction or the run
\* fail: it gets no name_to_fqn entry, is indexed in by_name and under its
\* fileName in by_file, and is audited when its file is among the input files.
C18_MalformedTargetTolerated ==
    PastIndex => \A i \in MalformedTargetRecords :
                    pc # "raised" /\ IndexedAndAudited(i)

\* the same for the graphs whose targets are all objects, null or empty
MalformedTargetToleratedUnlessTruthyNonObject ==
    (PastIndex /\ ~IndexRaises(graph_file.graph))
        => \A i \in MalformedTargetRecords :
              pc # "raised" /\ IndexedAndAudited(i)

\* a "dependencies" value that is a sequence with an entry that is no string
HasNonStringEntry(deps) ==
    deps.t = "list" /\ \E i \in DOMAIN deps.v : ~IsStr(deps.v[i])

\* the string entries of a "dependencies" sequence
StringEntries(deps) == {deps.v[i].v : i \in {j \in DOMAIN deps.v : IsStr(deps.v[j])}}

\* C19: when an action's dependencies sequence contains a non-string entry,
\* the run does not abort and only the malformed entry is omitted: a read
\* reference equal to name_to_fqn[d] for a string entry d of that sequence is
\* accounted for and not reported as a suspect.
C19_OnlyMalformedEntryOmitted ==
    /\ (\E i \in DOMAIN GraphActions : HasNonStringEntry(GraphActions[i].dependencies))
          => pc # "raised"
    /\ \A i \in DOMAIN evaluated :
          LET deps == evaluated[i].action.dependencies
          IN HasNonStringEntry(deps) =>
                \A d \in StringEntries(deps) \cap DOMAIN index.name_to_fqn :
                    index.name_to_fqn[d] \notin evaluated[i].suspects

\* a dependencies sequence with a non-string entry never aborts the run, and
\* none of its entries accounts for a read reference
NonStringEntryVoidsDependencies ==
    /\ (\E i \in DOMAIN GraphActions : HasNonStringEntry(GraphActions[i].dependencies))
          => pc # "raised"
    /\ \A i \in DOMAIN evaluated :
          HasNonStringEntry(evaluated[i].action.dependencies)
             => evaluated[i].suspects
                  = evaluated[i].parsed_tables \ index.source_fqns

(***************************************************************************)
(* The order of the findings of run().                                     *)
(***************************************************************************)
\* a sequence of strings in strictly ascending order
StrictlyAscending(seq) ==
    \A i \in DOMAIN seq : \A j \in DOMAIN seq : i < j => StrLess(seq[i], seq[j])

\* the names by_file lists under a set of files
NamesOfFiles(fileset) ==
    UNION {Range(index.by_file[f]) : f \in fileset \cap DOMAIN index.by_file}

\* the suspects of the action indexed under name n
SuspectsOfName(n) == ClaimSuspects(index.by_name[n])

\* the findings of a run over a set of input files: one for each name with
\* suspects, in ascending order of name
FindingsOfFiles(fileset) ==
    LET flagged == {n \in NamesOfFiles(fileset) : SuspectsOfName(n) # {}}
        names == Sorted(flagged)
    IN [i \in DOMAIN names |->
          Line("error", MsgFinding,
               Or(index.by_name[names[i]].fileName, Str(names[i])).v,
               Sorted(SuspectsOfName(names[i])))]

PrintedFindings == SelectSeq(out, LAMBDA l : l.msg = MsgFinding)

\* C20: scoped actions are evaluated in ascending order of action name, each
\* exactly once, and each finding lists its suspects in sorted order; the
\* sequence of finding lines and the status are those of the set of input
\* files, hence the same for every permutation of the input file list and
\* for input lists that repeat a file.
C20_OrderIndependentOfFileList ==
    /\ StrictlyAscending([i \in DOMAIN evaluated |-> evaluated[i].name])
    /\ EvaluatedNames \subseteq to_check
    /\ \A i \in DOMAIN out : StrictlyAscending(out[i].suspects)
    /\ (pc = "done" /\ GraphLoaded) =>
          /\ EvaluatedNames = NamesOfFiles(Range(files))
          /\ PrintedFindings = FindingsOfFiles(Range(files))
          /\ rc = IF FindingsOfFiles(Range(files)) # <<>> THEN 1 ELSE 0

\* a run has returned for an input list of two files that starts with
\* b.sqlx, after two findings, one of them with two suspects
C20_Witness ==
    /\ pc = "done"
    /\ Len(files) = 2
    /\ files[1] = FileB
    /\ Len(evaluated) = 2
    /\ Len(PrintedFindings) = 2
    /\ \E i \in DOMAIN out : Len(out[i].suspects) = 2

(***************************************************************************)
(* Which record is audited under a scoped name.                            *)
(***************************************************************************)
\* the records of the input files that carry the name n
ScopedCarriers(n) ==
    {i \in ScopedRecords :
        HasName(GraphActions[i]) /\ RecName(GraphActions[i]) = n}

\* the audit of name n read the query and the dependencies of record a
AuditedAs(e, a) ==
    /\ e.parsed_tables = _extract_read_tables(_action_query(a))
    /\ _action_query(e.action) = _action_query(a)
    /\ e.action.dependencies = a.dependencies

\* C21: every action evaluated by the check has a fileName that is among the
\* input files, and the query and dependencies audited for a scoped name are
\* those of the action defined in that input file, also when two actions of
\* the graph share a name and are defined in different files.
C21_AuditedActionIsOfInputFile ==
    \A i \in DOMAIN evaluated :
        LET e == evaluated[i]
        IN /\ IsStr(e.action.fileName)
           /\ e.action.fileName.v \in Range(files)
           /\ \E j \in ScopedCarriers(e.name) : AuditedAs(e, GraphActions[j])

\* no two records of the graph carry the same name
NamesUnique ==
    \A i \in DOMAIN GraphActions : \A j \in DOMAIN GraphActions :
        (i # j /\ HasName(GraphActions[i]) /\ HasName(GraphActions[j]))
            => RecName(GraphActions[i]) # RecName(GraphActions[j])

\* the same for the graphs whose names are unique
AuditedActionIsOfInputFileWhenNamesUnique ==
    NamesUnique =>
        \A i \in DOMAIN evaluated :
            LET e == evaluated[i]
            IN /\ IsStr(e.action.fileName)
               /\ e.action.fileName.v \in Range(files)
               /\ \E j \in ScopedCarriers(e.name) : AuditedAs(e, GraphActions[j])

\* whatever the names, the record audited under a name is the last record
\* of the graph that carries it
AuditedActionIsLastNamed ==
    \A i \in DOMAIN evaluated :
        /\ evaluated[i].action = LastNamed(evaluated[i].name)
        /\ ScopedCarriers(evaluated[i].name) # {}

(***************************************************************************)
(* _extract_read_tables over statements with CTEs, one Table node per      *)
(* step.  The statements are SELECTs, alone or as the source of a CREATE   *)
(* or an INSERT, of four shapes:                                           *)
(*   plain     select * from T2                                            *)
(*   root      with A1 as (select * from T1) select * from T2              *)
(*   nested    with A1 as (with A2 as (select * from T1)                   *)
(*                         select * from T3) select * from T2              *)
(*   subquery  select * from (with A1 as (select * from T1)                *)
(*                            select * from T3) join T2                    *)
(* with T1 and T2 a bare, dataset-qualified or project-qualified reference *)
(* named b or x, T3 one of ds.x, b and ds.b, and every alias A either b    *)
(* or x.                                                                   *)
(***************************************************************************)
\* <<catalog, db, name>> of the table references
TableRefs ==
    {<<cat, db, nm>> : cat \in {<<>>, <<"proj">>}, db \in {<<>>, <<"ds">>},
                       nm \in {<<"b">>, <<"x">>}}
    \ {<<cat, db, nm>> : cat \in {<<"proj">>}, db \in {<<>>},
                         nm \in {<<"b">>, <<"x">>}}

CteAliasPool == {<<"b">>, <<"x">>}

\* a subtree placed under node `root` of a larger tree, after k nodes
Rebase(tree, k, root) ==
    [i \in DOMAIN tree |->
        [tree[i] EXCEPT !.parent = IF @ = 0 THEN root ELSE @ + k,
                        !.this = IF @ = 0 THEN 0 ELSE @ + k]]

\* select * from ref
SelectFrom(ref) ==
    << Node("Select", 0, 0), Node("From", 1, 3), Table(2, ref[1], ref[2], ref[3]) >>

\* with alias as (body) sel
WithCte(sel, alias, body) ==
    sel \o << Node("With", 1, 0), CTE(Len(sel) + 1, Len(sel) + 3, alias) >>
        \o Rebase(body, Len(sel) + 2, Len(sel) + 2)

\* select * from (inner) join ref
SelectFromSubquery(inner, ref) ==
    << Node("Select", 0, 0), Node("From", 1, 3), Node("Subquery", 2, 4) >>
       \o Rebase(inner, 3, 3)
       \o << Node("Join", 1, Len(inner) + 5),
             Table(Len(inner) + 4, ref[1], ref[2], ref[3]) >>

\* create table target as sel / insert into target sel
WriteInto(kind, target, sel) ==
    << Node(kind, 0, 2), Table(1, target[1], target[2], target[3]) >>
       \o Rebase(sel, 2, 1)

Selects ==
    {SelectFrom(t2) : t2 \in TableRefs}
    \cup {WithCte(SelectFrom(t2), a1, SelectFrom(t1)) :
            a1 \in CteAliasPool, t1 \in TableRefs, t2 \in TableRefs}
    \cup {WithCte(SelectFrom(t2), a1,
                  WithCte(SelectFrom(<<<<>>, <<"ds">>, <<"x">>>>), a2, SelectFrom(t1))) :
            a1 \in CteAliasPool, a2 \in CteAliasPool, t1 \in TableRefs,
            t2 \in TableRefs}
    \cup {SelectFromSubquery(WithCte(SelectFrom(t3), a1, SelectFrom(t1)), t2) :
            a1 \in CteAliasPool, t1 \in TableRefs, t2 \in TableRefs,
            t3 \in {<<<<>>, <<>>, <<"b">>>>, <<<<>>, <<"ds">>, <<"b">>>>}}

WriteTargets == {<<<<>>, <<"ds">>, <<"b">>>>, <<<<"proj">>, <<"ds">>, <<"x">>>>}

Statements ==
    Selects \cup {WriteInto(kind, target, sel) :
                     kind \in {"Create", "Insert"}, target \in WriteTargets,
                     sel \in Selects}

\* cte_names = _collect_cte_names(tree); results = set()
ExtractStart ==
    /\ x_pc = "start"
    /\ x_cte_names' = _collect_cte_names(x_tree)
    /\ x_todo' = Ascending(FindAll(x_tree, "Table"))
    /\ x_results' = {}
    /\ x_pc' = "loop"
    /\ UNCHANGED <<x_tree, x_marks, not_ext_vars>>

\* one iteration of `for t in tree.find_all(exp.Table)`
ExtractTable ==
    /\ x_pc = "loop"
    /\ x_todo # <<>>
    /\ LET t == Head(x_todo)
           fqn == _normalize_bq_table(x_tree, t)
           branch == IF x_tree[t].name \in x_cte_names THEN "cte"
                     ELSE IF _is_write_target(x_tree, t) THEN "write_target"
                     ELSE IF fqn = <<>> THEN "no_fqn"
                     ELSE "added"
       IN /\ x_marks' = Append(x_marks, [node |-> t, branch |-> branch])
          /\ x_results' = IF branch = "added" THEN x_results \cup {fqn}
                          ELSE x_results
    /\ x_todo' = Tail(x_todo)
    /\ UNCHANGED <<x_tree, x_pc, x_cte_names, not_ext_vars>>

\* return results
ExtractReturn ==
    /\ x_pc = "loop"
    /\ x_todo = <<>>
    /\ x_pc' = "done"
    /\ UNCHANGED <<x_tree, x_cte_names, x_todo, x_marks, x_results, not_ext_vars>>

InitExtract ==
    /\ x_tree \in Statements
    /\ x_pc = "start"
    /\ x_cte_names = {}
    /\ x_todo = <<>>
    /\ x_marks = <<>>
    /\ x_results = {}
    /\ FqnIdle
    /\ RunnerIdle
    /\ ColumnsIdle
    /\ SchemaIdle
    /\ WalkIdle

NextExtract == ExtractStart \/ ExtractTable \/ ExtractReturn

SpecExtract == InitExtract /\ [][NextExtract]_vars

(***************************************************************************)
(* Properties of _extract_read_tables.                                     *)
(***************************************************************************)
\* dataset.table or project.dataset.table of a Table node
Identifier(node) ==
    IF node.catalog # <<>>
    THEN node.catalog \o <<".">> \o node.db \o <<".">> \o node.name
    ELSE node.db \o <<".">> \o node.name

\* node i is the target of a CREATE, INSERT or COPY that encloses it
StatedWriteTarget(tree, i) ==
    \E kind \in StatementKinds :
        InTargetSlot(tree, i, NearestEnclosing(tree, i, kind))

\* the nodes visited so far that the loop added to the result
Included == {x_marks[m].node : m \in {k \in DOMAIN x_marks : x_marks[k].branch = "added"}}

\* the whole loop agrees with the extractor of run()
ExtractAgreesWithReadTables ==
    x_pc = "done" => x_results = ReadTablesOfTree(x_tree)

\* C22: a table-reference node whose bare name equals the alias of any CTE
\* of the statement (root, nested, or in another sub-query scope) is
\* excluded from the result, also when it is dataset- or project-qualified;
\* every other reference that is no write target and has a non-empty
\* dataset and table name is included; a reference without a dataset is
\* discarded.
C22_CteNamedReferencesExcluded ==
    /\ x_results = {Identifier(x_tree[i]) : i \in Included}
    /\ \A m \in DOMAIN x_marks :
          LET i == x_marks[m].node
              node == x_tree[i]
          IN /\ node.name \in CteAliases(x_tree)
                  => /\ i \notin Included
                     /\ node.db # <<>> => Identifier(node) \notin x_results
             /\ (/\ node.name \notin CteAliases(x_tree)
                 /\ ~StatedWriteTarget(x_tree, i)
                 /\ node.db # <<>>
                 /\ node.name # <<>>)
                  => i \in Included /\ Identifier(node) \in x_results
             /\ node.db = <<>> => i \notin Included

\* the extractor has returned for a statement whose only CTE is nested in
\* another scope than a qualified reference that bears its alias, next to a
\* reference that is included and one that has no dataset
C22_Witness ==
    /\ x_pc = "done"
    /\ \E c \in FindAll(x_tree, "CTE") :
          /\ FindAncestor(x_tree, c, "CTE") # 0 \/ FindAncestor(x_tree, c, "Subquery") # 0
          /\ \E m \in DOMAIN x_marks :
                LET i == x_marks[m].node
                IN /\ x_tree[i].name = x_tree[c].alias
                   /\ x_tree[i].db # <<>>
                   /\ c \notin AncestorsOf(x_tree, i)
                   /\ FindAncestor(x_tree, i, "Subquery") = 0
                   /\ x_marks[m].branch = "cte"
    /\ x_results # {}
    /\ \E m \in DOMAIN x_marks : x_marks[m].branch = "no_fqn"

====
